---- MODULE Spec2Model ----
(***************************************************************************)
(* Model of the MIDI-to-notation services of audio-to-midi-frontend        *)
(* (services/midiProcessor.js): convertNoteToABC, convertMidiToABC,        *)
(* convertMidiToVexFlow and getMidiSummary.                                *)
(*                                                                         *)
(* Representation of JavaScript values:                                    *)
(*  - a string is a sequence of one-character strings (<<"C","#","5">>),   *)
(*    so that the regular-expression and concatenation steps of the code   *)
(*    are computed and not assumed;                                        *)
(*  - an optional property p of an object is a pair hasP / p; hasP = FALSE *)
(*    stands for `undefined' and p then holds a placeholder;               *)
(*  - the null model is the record with isNull = TRUE;                     *)
(*  - times and durations are integers in milliseconds (0.25 s = 250);     *)
(*  - a function call yields [throws, value, logged]: whether an exception *)
(*    leaves the function, the value returned, and whether console.error   *)
(*    was called.                                                          *)
(***************************************************************************)
EXTENDS Integers, Sequences, FiniteSets, TLC

VARIABLES midiData, abcNotation, vexFlowData, midiSummary,
          consoleErrors, uncaught, called, repeated,
          request, response,
          isTranscribing, midiBlob, midiFilename, error, currentFile,
          uploads, settled, processed, viewerError,
          supportedFormats, maxFileSize, formatsFetched, crashed,
          lastDrop, lastEvent, downloaded,
          status, mounted, intervalSet, ticks, checksStarted,
          checksCompleted, lastCheck

\* the model given to the notation functions and what they produced
viewVars == <<midiData, abcNotation, vexFlowData, midiSummary,
              consoleErrors, uncaught, called, repeated>>

\* one call of a function of apiService.js or of parseMidiBlob: its
\* arguments with the behaviour of the network, and what it returned
apiVars == <<request, response>>

\* the state of App (with midiData and midiSummary above), the pending
\* handleFileUpload calls and how the last one ended, whether the effect of
\* SheetMusicViewer has run for the current midiData and the viewer's error,
\* the state of FileUploader, whether a render has thrown, the drop of the
\* last step with what onDrop did about it, the handler that ran last, and
\* what the last step handed to the browser for download.  A value that may be null or
\* undefined is <<v>> when present and <<>> when not.
uiVars == <<isTranscribing, midiBlob, midiFilename, error, currentFile,
            uploads, settled, processed, viewerError,
            supportedFormats, maxFileSize, formatsFetched, crashed,
            lastDrop, lastEvent, downloaded>>

\* BackendStatus: its status, whether it is mounted and its interval set,
\* the ticks of the interval so far, the calls of checkStatus started and
\* completed, and what checkBackendHealth gave to the call completed last
statusVars == <<status, mounted, intervalSet, ticks, checksStarted,
                checksCompleted, lastCheck>>

appVars == <<uiVars, statusVars>>

vars == <<viewVars, apiVars, appVars>>

(***************************************************************************)
(* Bounds of the explored inputs.                                          *)
(***************************************************************************)
MaxOctave == 9
MaxNotes == 3
MaxTime == 2
MaxTracks == 2
MaxLineNotes == 17
MaxPending == 2
MaxTicks == 3

(***************************************************************************)
(* Characters and numbers.                                                 *)
(***************************************************************************)
Digits == <<"0", "1", "2", "3", "4", "5", "6", "7", "8", "9">>

IsDigit(c) == \E i \in 1..10 : Digits[i] = c

DigitValue(c) == (CHOOSE i \in 1..10 : Digits[i] = c) - 1

RECURSIVE NatToString(_)
NatToString(n) ==
  IF n < 10 THEN <<Digits[n + 1]>>
  ELSE Append(NatToString(n \div 10), Digits[(n % 10) + 1])

UpperCase == <<"A", "B", "C", "D", "E", "F", "G", "H", "I", "J", "K", "L", "M",
               "N", "O", "P", "Q", "R", "S", "T", "U", "V", "W", "X", "Y", "Z">>

LowerCase == <<"a", "b", "c", "d", "e", "f", "g", "h", "i", "j", "k", "l", "m",
               "n", "o", "p", "q", "r", "s", "t", "u", "v", "w", "x", "y", "z">>

\* String.prototype.toLowerCase
toLowerCase(s) ==
  [i \in 1..Len(s) |->
     IF \E k \in 1..26 : UpperCase[k] = s[i]
     THEN LowerCase[CHOOSE k \in 1..26 : UpperCase[k] = s[i]]
     ELSE s[i]]

\* The match of the regular expression /\d+/ in s: the first maximal run of
\* digits, as [found, from, to].
MatchDigits(s) ==
  IF \E i \in 1..Len(s) : IsDigit(s[i])
  THEN LET from == CHOOSE i \in 1..Len(s) :
                     IsDigit(s[i]) /\ \A j \in 1..(i - 1) : ~IsDigit(s[j])
           to == CHOOSE e \in from..Len(s) :
                   /\ \A k \in from..e : IsDigit(s[k])
                   /\ (e = Len(s) \/ ~IsDigit(s[e + 1]))
       IN [found |-> TRUE, from |-> from, to |-> to]
  ELSE [found |-> FALSE, from |-> 0, to |-> 0]

\* parseInt of a string of decimal digits
RECURSIVE parseInt(_)
parseInt(s) ==
  IF s = <<>> THEN 0
  ELSE 10 * parseInt(SubSeq(s, 1, Len(s) - 1)) + DigitValue(s[Len(s)])

RECURSIVE Repeat(_, _)
Repeat(c, n) == IF n <= 0 THEN <<>> ELSE <<c>> \o Repeat(c, n - 1)

(***************************************************************************)
(* convertNoteToABC                                                        *)
(***************************************************************************)
\* the names of the functions an object literal inherits from
\* Object.prototype
InheritedFunctionNames ==
  {
    <<"c", "o", "n", "s", "t", "r", "u", "c", "t", "o", "r">>,
    <<"t", "o", "S", "t", "r", "i", "n", "g">>,
    <<"t", "o", "L", "o", "c", "a", "l", "e", "S", "t", "r", "i", "n",
     "g">>,
    <<"v", "a", "l", "u", "e", "O", "f">>,
    <<"h", "a", "s", "O", "w", "n", "P", "r", "o", "p", "e", "r", "t",
     "y">>,
    <<"i", "s", "P", "r", "o", "t", "o", "t", "y", "p", "e", "O", "f">>,
    <<"p", "r", "o", "p", "e", "r", "t", "y", "I", "s", "E", "n", "u", "m",
     "e", "r", "a", "b", "l", "e">>,
    <<"_", "_", "d", "e", "f", "i", "n", "e", "G", "e", "t", "t", "e", "r",
     "_", "_">>,
    <<"_", "_", "d", "e", "f", "i", "n", "e", "S", "e", "t", "t", "e", "r",
     "_", "_">>,
    <<"_", "_", "l", "o", "o", "k", "u", "p", "G", "e", "t", "t", "e", "r",
     "_", "_">>,
    <<"_", "_", "l", "o", "o", "k", "u", "p", "S", "e", "t", "t", "e", "r",
     "_", "_">>
  }

\* String(f) for a built-in function f
FunctionText(name) ==
  <<"f", "u", "n", "c", "t", "i", "o", "n", " ">>
  \o name
  \o <<"(", ")", " ", "{", " ", "[", "n", "a", "t", "i", "v", "e", " ", "c",
     "o", "d", "e", "]", " ", "}">>

\* noteMap[noteName] || 'C': an own property, a member inherited from
\* Object.prototype (a function, or for __proto__ the prototype object, all
\* truthy) or 'C'; text is what the value gives when a string is appended
noteMap(noteName) ==
  CASE noteName = <<"C">> -> [kind |-> "string", text |-> <<"C">>]
    [] noteName = <<"C", "#">> -> [kind |-> "string", text |-> <<"^", "C">>]
    [] noteName = <<"D">> -> [kind |-> "string", text |-> <<"D">>]
    [] noteName = <<"D", "#">> -> [kind |-> "string", text |-> <<"^", "D">>]
    [] noteName = <<"E">> -> [kind |-> "string", text |-> <<"E">>]
    [] noteName = <<"F">> -> [kind |-> "string", text |-> <<"F">>]
    [] noteName = <<"F", "#">> -> [kind |-> "string", text |-> <<"^", "F">>]
    [] noteName = <<"G">> -> [kind |-> "string", text |-> <<"G">>]
    [] noteName = <<"G", "#">> -> [kind |-> "string", text |-> <<"^", "G">>]
    [] noteName = <<"A">> -> [kind |-> "string", text |-> <<"A">>]
    [] noteName = <<"A", "#">> -> [kind |-> "string", text |-> <<"^", "A">>]
    [] noteName = <<"B">> -> [kind |-> "string", text |-> <<"B">>]
    [] noteName = <<"c", "o", "n", "s", "t", "r", "u", "c", "t", "o", "r">> ->
         [kind |-> "function",
          text |-> FunctionText(<<"O", "b", "j", "e", "c", "t">>)]
    [] noteName \in InheritedFunctionNames
       /\ noteName # <<"c", "o", "n", "s", "t", "r", "u", "c", "t", "o", "r">> ->
         [kind |-> "function", text |-> FunctionText(noteName)]
    [] noteName = <<"_", "_", "p", "r", "o", "t", "o", "_", "_">> ->
         [kind |-> "object",
          text |-> <<"[", "o", "b", "j", "e", "c", "t", " ", "O", "b", "j",
                   "e", "c", "t", "]">>]
    [] OTHER -> [kind |-> "string", text |-> <<"C">>]

\* note.name.replace(/\d+/, '')
RemoveOctave(name) ==
  LET m == MatchDigits(name)
  IN IF m.found
     THEN SubSeq(name, 1, m.from - 1) \o SubSeq(name, m.to + 1, Len(name))
     ELSE name

\* parseInt(note.name.match(/\d+/)?.[0]) || 4
OctaveOf(name) ==
  LET m == MatchDigits(name)
      n == IF m.found THEN parseInt(SubSeq(name, m.from, m.to)) ELSE 0
  IN IF m.found /\ n # 0 THEN n ELSE 4

\* the octave marks appended to (or case applied to) the pitch class;
\* abcNote.toLowerCase is not a function unless abcNote is a string, and
\* abcNote += ',' makes a string of any value
OctaveMarked(abcNote, octave) ==
  IF octave >= 5
  THEN IF abcNote.kind # "string" THEN [throws |-> TRUE, value |-> <<>>]
       ELSE [throws |-> FALSE,
             value |-> toLowerCase(abcNote.text) \o Repeat("'", octave - 5)]
  ELSE IF octave < 4
  THEN [throws |-> FALSE, value |-> abcNote.text \o Repeat(",", 4 - octave)]
  ELSE [throws |-> FALSE, value |-> abcNote.text]

\* suffixes with the half-note threshold compared by <=
AbcDurationSuffixInclusive(duration) ==
  IF duration < 250 THEN <<"/", "4">>
  ELSE IF duration < 500 THEN <<"/", "2">>
  ELSE IF duration < 1000 THEN <<>>
  ELSE IF duration <= 2000 THEN <<"2">>
  ELSE <<"4">>

\* the duration suffix of convertNoteToABC
AbcDurationSuffix(duration) ==
  IF duration < 250 THEN <<"/", "4">>
  ELSE IF duration < 500 THEN <<"/", "2">>
  ELSE IF duration < 1000 THEN <<>>
  ELSE IF duration < 2000 THEN <<"2">>
  ELSE <<"4">>

\* every branch of the duration mapping appends a string, so that the value
\* returned is a string whatever noteMap gave
convertNoteToABC(note) ==
  IF ~note.hasName
  THEN [throws |-> TRUE, value |-> <<>>]
  ELSE LET marked == OctaveMarked(noteMap(RemoveOctave(note.name)),
                                  OctaveOf(note.name))
       IN IF marked.throws THEN [throws |-> TRUE, value |-> <<>>]
          ELSE [throws |-> FALSE,
                value |-> marked.value \o AbcDurationSuffix(note.duration)]

(***************************************************************************)
(* [...notes].sort((a, b) => a.time - b.time)                              *)
(***************************************************************************)
compareTime(a, b) == a.time - b.time

\* an insertion that moves a note before the notes of equal time
RECURSIVE InsertUnstable(_, _)
InsertUnstable(s, x) ==
  IF s = <<>> THEN <<x>>
  ELSE IF compareTime(s[Len(s)], x) >= 0
       THEN Append(InsertUnstable(SubSeq(s, 1, Len(s) - 1), x), s[Len(s)])
       ELSE Append(s, x)

\* Array.prototype.sort is stable: x goes after every element that does not
\* compare greater than it
RECURSIVE Insert(_, _)
Insert(s, x) ==
  IF s = <<>> THEN <<x>>
  ELSE IF compareTime(s[Len(s)], x) > 0
       THEN Append(Insert(SubSeq(s, 1, Len(s) - 1), x), s[Len(s)])
       ELSE Append(s, x)

RECURSIVE sortNotes(_)
sortNotes(notes) ==
  IF notes = <<>> THEN <<>>
  ELSE Insert(sortNotes(SubSeq(notes, 1, Len(notes) - 1)), notes[Len(notes)])

\* firstTrack.notes.sort(...): the notes list itself is put in order
SortInPlace(notes) == [notes |-> sortNotes(notes), sorted |-> sortNotes(notes)]

\* [...firstTrack.notes].sort(...): the two arrays after the statement; the
\* spread makes a new array, which sort() puts in order, and the notes list
\* keeps its order
SpreadAndSort(notes) == [notes |-> notes, sorted |-> sortNotes(notes)]

\* the model object after a call of an encoder on it: the statements before
\* the sort only read it, and the loop after it reads the sorted array
ModelAfterEncoding(m) ==
  IF ~m.isNull /\ m.hasTracks /\ Len(m.tracks) > 0 /\ m.tracks[1].hasNotes
  THEN [m EXCEPT !.tracks[1].notes = SpreadAndSort(@).notes]
  ELSE m

(***************************************************************************)
(* convertMidiToABC                                                        *)
(***************************************************************************)
\* midiData.name ?? 'Transcribed Audio': an empty name is kept
TitleOfNullish(m) ==
  IF m.hasName THEN m.name
  ELSE <<"T", "r", "a", "n", "s", "c", "r", "i", "b", "e", "d", " ",
         "A", "u", "d", "i", "o">>

\* midiData.name || 'Transcribed Audio'
TitleOf(m) ==
  IF m.hasName /\ m.name # <<>> THEN m.name
  ELSE <<"T", "r", "a", "n", "s", "c", "r", "i", "b", "e", "d", " ",
         "A", "u", "d", "i", "o">>

\* the five header lines
AbcHeader(m) ==
  <<"X", ":", "1", "\n">>
  \o <<"T", ":">> \o TitleOf(m) \o <<"\n">>
  \o <<"M", ":", "4", "/", "4", "\n">>
  \o <<"L", ":", "1", "/", "4", "\n">>
  \o <<"K", ":", "C", "\n">>

\* sortedNotes.forEach((note, index) => ...), index = i - 1
RECURSIVE AppendAbcNotes(_, _, _)
AppendAbcNotes(abc, sortedNotes, i) ==
  IF i > Len(sortedNotes) THEN [throws |-> FALSE, value |-> abc]
  ELSE LET abcNote == convertNoteToABC(sortedNotes[i])
       IN IF abcNote.throws THEN [throws |-> TRUE, value |-> abc]
          ELSE AppendAbcNotes(
                 abc \o abcNote.value
                     \o (IF i - 1 < Len(sortedNotes) - 1 THEN <<" ">> ELSE <<>>)
                     \o (IF i % 8 = 0 THEN <<"\n">> ELSE <<>>),
                 sortedNotes, i + 1)

\* a guard that tests the tracks list only for presence
AbcTryBlockNoLengthCheck(m) ==
  IF m.isNull THEN [throws |-> TRUE, value |-> <<>>]
  ELSE IF m.hasTracks
       THEN IF Len(m.tracks) = 0 \/ ~m.tracks[1].hasNotes
            THEN [throws |-> TRUE, value |-> AbcHeader(m)]
            ELSE AppendAbcNotes(AbcHeader(m), sortNotes(m.tracks[1].notes), 1)
       ELSE [throws |-> FALSE, value |-> AbcHeader(m)]

\* the try block of convertMidiToABC: throws tells whether it raised, value is
\* abcNotation at that point
AbcTryBlock(m) ==
  IF m.isNull THEN [throws |-> TRUE, value |-> <<>>]
  ELSE IF m.hasTracks /\ Len(m.tracks) > 0
       THEN LET firstTrack == m.tracks[1]
            IN IF ~firstTrack.hasNotes
               THEN [throws |-> TRUE, value |-> AbcHeader(m)]
               ELSE AppendAbcNotes(AbcHeader(m),
                                   SpreadAndSort(firstTrack.notes).sorted, 1)
       ELSE [throws |-> FALSE, value |-> AbcHeader(m)]

\* the value returned by the catch block of convertMidiToABC
AbcFallback ==
  <<"X", ":", "1", "\n", "T", ":", "E", "r", "r", "o", "r", "\n",
    "M", ":", "4", "/", "4", "\n", "L", ":", "1", "/", "4", "\n",
    "K", ":", "C", "\n", "z", "4">>

\* a catch block that returns the document built so far
convertMidiToABCPartial(m) ==
  LET r == AbcTryBlock(m)
  IN [throws |-> FALSE, value |-> r.value, logged |-> r.throws]

convertMidiToABC(m) ==
  LET r == AbcTryBlock(m)
  IN IF r.throws
     THEN [throws |-> FALSE, value |-> AbcFallback, logged |-> TRUE]
     ELSE [throws |-> FALSE, value |-> r.value, logged |-> FALSE]

(***************************************************************************)
(* convertMidiToVexFlow                                                    *)
(***************************************************************************)
\* duration codes with the first threshold compared by <=
VexDurationInclusive(duration) ==
  IF duration <= 250 THEN <<"1", "6">>
  ELSE IF duration < 500 THEN <<"8">>
  ELSE IF duration < 1000 THEN <<"q">>
  ELSE IF duration < 2000 THEN <<"h">>
  ELSE <<"w">>

\* the duration code of convertMidiToVexFlow
VexDuration(duration) ==
  IF duration < 250 THEN <<"1", "6">>
  ELSE IF duration < 500 THEN <<"8">>
  ELSE IF duration < 1000 THEN <<"q">>
  ELSE IF duration < 2000 THEN <<"h">>
  ELSE <<"w">>

\* note.name.replace(/(\d+)/, '/'): the octave digits are lost
SlashOctaveDropDigits(name) ==
  LET m == MatchDigits(name)
  IN IF m.found
     THEN SubSeq(name, 1, m.from - 1) \o <<"/">>
          \o SubSeq(name, m.to + 1, Len(name))
     ELSE name

\* note.name.replace(/(\d+)/, '/$1')
SlashOctave(name) ==
  LET m == MatchDigits(name)
  IN IF m.found
     THEN SubSeq(name, 1, m.from - 1) \o <<"/">>
          \o SubSeq(name, m.from, Len(name))
     ELSE name

\* sortedNotes.forEach(note => ... vexFlowNotes.push(vexFlowNote))
RECURSIVE PushVexFlowNotes(_, _, _)
PushVexFlowNotes(vexFlowNotes, sortedNotes, i) ==
  IF i > Len(sortedNotes) THEN [throws |-> FALSE, value |-> vexFlowNotes]
  ELSE LET note == sortedNotes[i]
       IN IF ~note.hasName THEN [throws |-> TRUE, value |-> vexFlowNotes]
          ELSE PushVexFlowNotes(
                 Append(vexFlowNotes,
                        [keys |-> <<SlashOctave(note.name)>>,
                         duration |-> VexDuration(note.duration),
                         midi |-> note.midi,
                         time |-> note.time]),
                 sortedNotes, i + 1)

\* the notes are taken from the last track instead of tracks[0]
VexTryBlockLastTrack(m) ==
  IF m.isNull THEN [throws |-> TRUE, value |-> <<>>]
  ELSE IF m.hasTracks /\ Len(m.tracks) > 0
       THEN LET firstTrack == m.tracks[Len(m.tracks)]
            IN IF ~firstTrack.hasNotes THEN [throws |-> TRUE, value |-> <<>>]
               ELSE PushVexFlowNotes(<<>>,
                                     SpreadAndSort(firstTrack.notes).sorted, 1)
       ELSE [throws |-> FALSE, value |-> <<>>]

\* the try block of convertMidiToVexFlow: throws tells whether it raised, value
\* is vexFlowNotes at that point
VexTryBlock(m) ==
  IF m.isNull THEN [throws |-> TRUE, value |-> <<>>]
  ELSE IF m.hasTracks /\ Len(m.tracks) > 0
       THEN LET firstTrack == m.tracks[1]
            IN IF ~firstTrack.hasNotes THEN [throws |-> TRUE, value |-> <<>>]
               ELSE PushVexFlowNotes(<<>>,
                                     SpreadAndSort(firstTrack.notes).sorted, 1)
       ELSE [throws |-> FALSE, value |-> <<>>]

\* a catch block that returns the descriptors built so far
convertMidiToVexFlowPartial(m) ==
  LET r == VexTryBlock(m)
  IN [throws |-> FALSE, value |-> r.value, logged |-> r.throws]

convertMidiToVexFlow(m) ==
  LET r == VexTryBlock(m)
  IN IF r.throws
     THEN [throws |-> FALSE, value |-> <<>>, logged |-> TRUE]
     ELSE [throws |-> FALSE, value |-> r.value, logged |-> FALSE]

(***************************************************************************)
(* getMidiSummary                                                          *)
(***************************************************************************)
Seconds == <<" ", "s", "e", "c", "o", "n", "d", "s">>

\* a duration cut to two decimals instead of rounded
DurationTextTruncated(hasDuration, ms) ==
  IF ~hasDuration THEN <<"N", "a", "N">> \o Seconds
  ELSE LET hundredths == ms \div 10
           whole == hundredths \div 100
           frac == hundredths % 100
       IN NatToString(whole)
          \o (IF frac = 0 THEN <<>>
              ELSE IF frac % 10 = 0 THEN <<".", Digits[(frac \div 10) + 1]>>
              ELSE <<".", Digits[(frac \div 10) + 1], Digits[(frac % 10) + 1]>>)
          \o Seconds

\* floor(log2(n)) for n >= 1
RECURSIVE FloorLog2(_)
FloorLog2(n) == IF n < 2 THEN 0 ELSE 1 + FloorLog2(n \div 2)

\* the least e with a * 2^e >= b, for 1 <= a < b
RECURSIVE Doublings(_, _)
Doublings(a, b) == IF a >= b THEN 0 ELSE 1 + Doublings(2 * a, b)

\* the binary exponent of the number a / b: floor(log2(a / b))
Exponent(a, b) ==
  IF a >= b THEN FloorLog2(a \div b) ELSE 0 - Doublings(a, b)

\* 2^n modulo 1000
RECURSIVE PowerOfTwoMod1000(_)
PowerOfTwoMod1000(n) ==
  IF n = 0 THEN 1 ELSE (2 * PowerOfTwoMod1000(n - 1)) % 1000

\* Math.round(duration * 100) for the double nearest to ms / 1000 (ms >= 0).
\* Off a decimal tie the rounding errors are too small to matter.  On a tie
\* (ms % 10 = 5) the exact product would be k + 0.5 with k = ms \div 10; the
\* double differs from ms / 1000 by -r / 1000 of its last place when
\* r < 500 and by (1000 - r) / 1000 when r > 500, where r is the remainder
\* of ms * 2^(52 - e) by 1000 and e the exponent of ms / 1000; a last place
\* of the product is 2^s last places of the double.  The product is rounded
\* to k + 0.5, and Math.round gives k + 1, unless the double is too small by
\* more than half a last place of the product, when Math.round gives k.
RoundedHundredths(ms) ==
  IF ms % 10 # 5 THEN (ms + 5) \div 10
  ELSE LET k == ms \div 10
           e == Exponent(ms, 1000)
           s == Exponent(ms, 10) - e
           r == ((ms % 1000) * PowerOfTwoMod1000(52 - e)) % 1000
       IN IF r < 500 /\ 2 * r > 10 * (IF s = 6 THEN 64 ELSE 128)
          THEN k ELSE k + 1

\* `${Math.round(midiData.duration * 100) / 100} seconds` for a duration of
\* ms milliseconds (ms >= 0): the number printed without trailing zeros
DurationText(hasDuration, ms) ==
  IF ~hasDuration THEN <<"N", "a", "N">> \o Seconds
  ELSE LET hundredths == RoundedHundredths(ms)
           whole == hundredths \div 100
           frac == hundredths % 100
       IN NatToString(whole)
          \o (IF frac = 0 THEN <<>>
              ELSE IF frac % 10 = 0 THEN <<".", Digits[(frac \div 10) + 1]>>
              ELSE <<".", Digits[(frac \div 10) + 1], Digits[(frac % 10) + 1]>>)
          \o Seconds

\* track.instrument?.name || 'Piano'
InstrumentOf(track) ==
  IF track.hasInstrument /\ track.instrument # <<>> THEN track.instrument
  ELSE <<"P", "i", "a", "n", "o">>

\* Array.prototype.join(', ')
RECURSIVE JoinComma(_)
JoinComma(strs) ==
  IF strs = <<>> THEN <<>>
  ELSE IF Len(strs) = 1 THEN strs[1]
  ELSE JoinComma(SubSeq(strs, 1, Len(strs) - 1)) \o <<",", " ">> \o strs[Len(strs)]

\* a reduce that counts a track without a notes list as empty
RECURSIVE CountNotesLenient(_, _, _)
CountNotesLenient(sum, tracks, i) ==
  IF i > Len(tracks) THEN [throws |-> FALSE, value |-> sum]
  ELSE CountNotesLenient(
         sum + (IF tracks[i].hasNotes THEN Len(tracks[i].notes) ELSE 0),
         tracks, i + 1)

\* midiData.tracks.reduce((sum, track) => sum + track.notes.length, 0)
RECURSIVE CountNotes(_, _, _)
CountNotes(sum, tracks, i) ==
  IF i > Len(tracks) THEN [throws |-> FALSE, value |-> sum]
  ELSE IF ~tracks[i].hasNotes THEN [throws |-> TRUE, value |-> 0]
  ELSE CountNotes(sum + Len(tracks[i].notes), tracks, i + 1)

\* the try block of getMidiSummary
SummaryTryBlock(m) ==
  IF m.isNull \/ ~m.hasTracks THEN [throws |-> TRUE, value |-> <<>>]
  ELSE LET totalNotes == CountNotes(0, m.tracks, 1)
       IN IF totalNotes.throws THEN [throws |-> TRUE, value |-> <<>>]
          ELSE [throws |-> FALSE,
                value |-> <<[name |-> TitleOf(m),
                             duration |-> DurationText(m.hasDuration, m.duration),
                             tracks |-> Len(m.tracks),
                             totalNotes |-> totalNotes.value,
                             instruments |->
                               JoinComma([i \in 1..Len(m.tracks) |->
                                            InstrumentOf(m.tracks[i])])]>>]

\* the value returned by the catch block of getMidiSummary
SummaryFallback ==
  [name |-> <<"U", "n", "k", "n", "o", "w", "n">>,
   duration |-> <<"0">> \o Seconds,
   tracks |-> 0,
   totalNotes |-> 0,
   instruments |-> <<"U", "n", "k", "n", "o", "w", "n">>]

getMidiSummary(m) ==
  LET r == SummaryTryBlock(m)
  IN IF r.throws
     THEN [throws |-> FALSE, value |-> <<SummaryFallback>>, logged |-> TRUE]
     ELSE [throws |-> FALSE, value |-> r.value, logged |-> FALSE]

(***************************************************************************)
(* The models the functions are applied to: the shape parseMidiBlob        *)
(* returns ({name, duration, tracks: [{instrument, notes: [{name, midi,    *)
(* time, duration, octave, pitch}]}]}), and the malformed values the       *)
(* functions guard against with try/catch.                                 *)
(***************************************************************************)
PitchClasses == << <<"C">>, <<"C", "#">>, <<"D">>, <<"D", "#">>, <<"E">>, <<"F">>,
                   <<"F", "#">>, <<"G">>, <<"G", "#">>, <<"A">>, <<"A", "#">>,
                   <<"B">> >>

\* note durations around every threshold, in milliseconds
Durations == {-100, 0, 100, 249, 250, 300, 499, 500, 999, 1000, 1999, 2000,
              2001, 2500, 4000}

\* the note of pitch class p (1..12) and octave o, named as @tonejs/midi does
Note(p, o, time, duration) ==
  [hasName |-> TRUE, name |-> PitchClasses[p] \o NatToString(o),
   midi |-> 12 * (o + 1) + (p - 1), time |-> time, duration |-> duration,
   pitch |-> PitchClasses[p], octave |-> o]

\* a note object without a name property
UnnamedNote(time, duration) ==
  [hasName |-> FALSE, name |-> <<>>, midi |-> 0, time |-> time,
   duration |-> duration, pitch |-> <<>>, octave |-> 0]

Track(notes, instrument) ==
  [hasNotes |-> TRUE, notes |-> notes,
   hasInstrument |-> instrument # <<>>, instrument |-> instrument]

\* a track object without a notes property
TrackWithoutNotes ==
  [hasNotes |-> FALSE, notes |-> <<>>, hasInstrument |-> FALSE,
   instrument |-> <<>>]

Model(hasName, name, hasDuration, duration, hasTracks, tracks) ==
  [isNull |-> FALSE, hasName |-> hasName, name |-> name,
   hasDuration |-> hasDuration, duration |-> duration,
   hasTracks |-> hasTracks, tracks |-> tracks]

NullModel ==
  [isNull |-> TRUE, hasName |-> FALSE, name |-> <<>>, hasDuration |-> FALSE,
   duration |-> 0, hasTracks |-> FALSE, tracks |-> <<>>]

Song == <<"S", "o", "n", "g">>
Guitar == <<"G", "u", "i", "t", "a", "r">>

SeqsUpTo(S, n) == UNION {[1..k -> S] : k \in 0..n}

\* one note of every pitch class, octave and duration
SingleNoteModels ==
  {Model(TRUE, Song, TRUE, 4500, TRUE, <<Track(<<Note(p, o, 0, d)>>, <<>>)>>) :
     p \in 1..12, o \in 0..MaxOctave, d \in Durations}

\* first tracks whose notes are in any order of time, with ties
OrderNotes ==
  {Note(1, 4, 500 * t, 500) : t \in 0..MaxTime}
  \cup {Note(4, 5, 500 * t, 1000) : t \in 0..MaxTime}

OrderModels ==
  {Model(TRUE, Song, TRUE, 4500, TRUE, <<Track(ns, <<>>)>>) :
     ns \in SeqsUpTo(OrderNotes, MaxNotes)}

\* first tracks with notes that have no name
NamelessModels ==
  {Model(TRUE, Song, TRUE, 4500, TRUE, <<Track(ns, <<>>)>>) :
     ns \in SeqsUpTo({Note(1, 4, 0, 500), Note(2, 5, 500, 2000),
                      UnnamedNote(0, 500)}, MaxNotes)}

\* models with absent or empty names, durations and track lists, and with
\* several tracks, some without notes
TrackChoices ==
  {TrackWithoutNotes,
   Track(<<>>, <<>>),
   Track(<<Note(1, 4, 0, 500)>>, Guitar),
   Track(<<UnnamedNote(0, 500)>>, <<>>),
   Track(<<Note(3, 4, 500, 500), Note(1, 4, 0, 300)>>, <<>>)}

ShapeModels ==
  {Model(n[1], n[2], d[1], d[2], t[1], t[2]) :
     n \in {<<FALSE, <<>>>>, <<TRUE, <<>>>>, <<TRUE, Song>>},
     d \in {<<FALSE, 0>>, <<TRUE, 4567>>},
     t \in {<<FALSE, <<>>>>} \cup {<<TRUE, ts>> : ts \in SeqsUpTo(TrackChoices, MaxTracks)}}

Piano == <<"P", "i", "a", "n", "o">>

\* well-formed models of several tracks and of various durations
SummaryDurations == {0, 4, 1005, 2500, 4000, 4565, 4567, 12344, 59996}

SummaryTracks ==
  {Track(<<Note(1, 4, 0, 500), Note(3, 4, 500, 500)>>, Piano),
   Track(<<Note(5, 4, 0, 500)>>, Guitar),
   Track(<<>>, <<>>)}

SummaryModels ==
  {Model(n[1], n[2], TRUE, d, TRUE, ts) :
     n \in {<<FALSE, <<>>>>, <<TRUE, Song>>},
     d \in SummaryDurations,
     ts \in SeqsUpTo(SummaryTracks, MaxTracks)}

\* first tracks long enough to fill one and two lines of eight tokens
LineModels ==
  {Model(TRUE, Song, TRUE, 4500, TRUE,
         <<Track([i \in 1..n |-> Note(1, 4, 500 * (i - 1), 500)], <<>>)>>) :
     n \in 0..MaxLineNotes}

Models ==
  {NullModel} \cup SingleNoteModels \cup OrderModels \cup NamelessModels
  \cup ShapeModels \cup SummaryModels \cup LineModels

(***************************************************************************)
(* services/apiService.js.  Messages and error strings are atomic strings; *)
(* file names are character sequences.  A JavaScript value that need not   *)
(* be a string is [kind, text]: kind is "string", "function" or "object".  *)
(***************************************************************************)
String(text) == [kind |-> "string", text |-> text]

\* the own properties of the errorMessages object literal
errorMessages ==
  [k \in {"File too large", "File type not supported", "Internal server error",
          "No audio file provided", "Network error occurred"} |->
     CASE k = "File too large" ->
            "Please select a smaller audio file (max 50MB)"
       [] k = "File type not supported" ->
            "Please use WAV, MP3, FLAC, or M4A files"
       [] k = "Internal server error" ->
            "Transcription service unavailable. Please try again."
       [] k = "No audio file provided" ->
            "Please select an audio file first"
       [] k = "Network error occurred" ->
            "Unable to connect to the transcription service"]

\* the properties an object literal inherits from Object.prototype: all are
\* functions but __proto__, which is the prototype object itself
ObjectPrototype ==
  [k \in {"constructor", "toString", "toLocaleString", "valueOf",
          "hasOwnProperty", "isPrototypeOf", "propertyIsEnumerable",
          "__defineGetter__", "__defineSetter__", "__lookupGetter__",
          "__lookupSetter__", "__proto__"} |->
     IF k = "__proto__" THEN [kind |-> "object", text |-> "Object.prototype"]
     ELSE [kind |-> "function", text |-> k]]

\* errorMessages[error]: own property, inherited property, or undefined
\* (the empty sequence)
Lookup(key) ==
  IF key \in DOMAIN errorMessages THEN <<String(errorMessages[key])>>
  ELSE IF key \in DOMAIN ObjectPrototype THEN <<ObjectPrototype[key]>>
  ELSE <<>>

DefaultErrorMessage == "An unexpected error occurred. Please try again."

\* errorMessages[error] || 'An unexpected error occurred. Please try again.'
getErrorMessage(key) ==
  LET found == Lookup(key)
  IN IF found # <<>> THEN found[1] ELSE String(DefaultErrorMessage)

\* name.split('.'): the segments between the dots, empty segments kept
RECURSIVE SplitDot(_, _, _, _)
SplitDot(s, i, current, parts) ==
  IF i > Len(s) THEN Append(parts, current)
  ELSE IF s[i] = "." THEN SplitDot(s, i + 1, <<>>, Append(parts, current))
  ELSE SplitDot(s, i + 1, Append(current, s[i]), parts)

split(name) == SplitDot(name, 1, <<>>, <<>>)

\* file.name.split('.').pop()?.toLowerCase()
ExtensionOf(name) ==
  LET parts == split(name) IN toLowerCase(parts[Len(parts)])

includes(list, x) == \E i \in 1..Len(list) : list[i] = x

BytesPerMB == 1024 * 1024

\* file.size / (1024 * 1024) > maxSizeMB
ExceedsLimit(size, maxSizeMB) == size > maxSizeMB * BytesPerMB

\* isValidAudioFile(file, supportedFormats, maxSizeMB)
isValidAudioFile(file, formats, maxSizeMB) ==
  IF file.isNull THEN FALSE
  ELSE LET extension == ExtensionOf(file.name)
       IN IF extension = <<>> \/ ~includes(formats, extension)
          THEN FALSE
          ELSE IF ExceedsLimit(file.size, maxSizeMB) THEN FALSE
          ELSE TRUE

\* error.message || 'Network error occurred'
MessageOf(message) ==
  IF message # "" THEN message ELSE "Network error occurred"

\* the two shapes of object transcribeAudio resolves to
Succeeded(blob, filename) ==
  [success |-> TRUE, midiFile |-> <<blob>>, filename |-> filename,
   error |-> ""]

Failed(message) ==
  [success |-> FALSE, midiFile |-> <<>>, filename |-> <<>>, error |-> message]

\* `${audioFile.name.split('.')[0]}.mid`
MidiFilename(name) == split(name)[1] \o <<".", "m", "i", "d">>

\* errorData.error || 'Transcription failed'
ServiceError(errorData) ==
  IF errorData.hasError /\ errorData.error # "" THEN errorData.error
  ELSE "Transcription failed"

\* the message of the TypeError thrown by reading a property of null
NullReadMessage(property) ==
  IF property = "error" THEN "Cannot read properties of null (reading 'error')"
  ELSE "Cannot read properties of null (reading 'name')"

\* an OK response is a success even when its body cannot be read
transcribeAudioIgnoringBody(audioFile, net) ==
  IF ~net.resolves THEN Failed(MessageOf(net.message))
  ELSE IF net.ok
  THEN IF audioFile.isNull THEN Failed(MessageOf(NullReadMessage("name")))
       ELSE Succeeded(net.blob, MidiFilename(audioFile.name))
  ELSE IF ~net.bodyRead THEN Failed(MessageOf(net.message))
  ELSE IF net.errorData.isNull
  THEN Failed(MessageOf(NullReadMessage("error")))
  ELSE Failed(ServiceError(net.errorData))

\* transcribeAudio(audioFile) when the exchange with the service goes as net
\* says: fetch resolves or rejects with net.message; the response is ok or
\* not; reading its body (blob() or json()) succeeds or rejects with
\* net.message; audioFile.name of a null file and errorData.error of a JSON
\* null throw a TypeError inside the try
transcribeAudio(audioFile, net) ==
  IF ~net.resolves THEN Failed(MessageOf(net.message))
  ELSE IF net.ok
  THEN IF ~net.bodyRead THEN Failed(MessageOf(net.message))
       ELSE IF audioFile.isNull
       THEN Failed(MessageOf(NullReadMessage("name")))
       ELSE Succeeded(net.blob, MidiFilename(audioFile.name))
  ELSE IF ~net.bodyRead THEN Failed(MessageOf(net.message))
  ELSE IF net.errorData.isNull
  THEN Failed(MessageOf(NullReadMessage("error")))
  ELSE Failed(ServiceError(net.errorData))

\* the diagnostic request without its own try/catch: its failure leaves the
\* function
SimpleFetchAttemptUncaught(net) == [throws |-> ~net.simpleResolves]

\* the inner try { await fetch(..., no-cors) } catch { console.error }
SimpleFetchAttempt(net) == [throws |-> FALSE]

\* the try block of checkBackendHealth: caught is TRUE when an exception
\* reaches the catch clause
HealthTryBlock(net) ==
  IF ~net.resolves THEN [caught |-> TRUE, value |-> FALSE]
  ELSE IF ~net.ok
  THEN IF net.bodyRead THEN [caught |-> FALSE, value |-> FALSE]
       ELSE [caught |-> TRUE, value |-> FALSE]
  ELSE IF ~net.bodyRead \/ net.data.isNull
  THEN [caught |-> TRUE, value |-> FALSE]
  ELSE [caught |-> FALSE,
        value |-> net.data.hasStatus /\ net.data.status = "healthy"]

\* checkBackendHealth() when the exchange goes as net says
checkBackendHealth(net) ==
  LET r == HealthTryBlock(net)
  IN IF ~r.caught THEN [throws |-> FALSE, value |-> r.value]
     ELSE [throws |-> SimpleFetchAttempt(net).throws, value |-> FALSE]

\* the catch clause of transcribeAudio is reached, and writes 'Transcription
\* error:' to the console: fetch rejected, blob() or json() did, or the
\* name of a null file or the error of a null body was read
TranscriptionErrorLogged(audioFile, net) ==
  \/ ~net.resolves
  \/ ~net.bodyRead
  \/ net.ok /\ audioFile.isNull
  \/ ~net.ok /\ net.errorData.isNull

\* the catch clause of getSupportedFormats is reached, and writes 'Failed to
\* get supported formats:' to the console
FormatsErrorLogged(net) == ~(net.resolves /\ net.bodyRead)

wav == <<"w", "a", "v">>
mp3 == <<"m", "p", "3">>
flac == <<"f", "l", "a", "c">>
m4a == <<"m", "4", "a">>

\* the object returned by the catch clause of getSupportedFormats
DefaultFormats ==
  [isNull |-> FALSE, hasFormats |-> TRUE,
   supported_formats |-> <<wav, mp3, flac, m4a>>,
   hasMaxSize |-> TRUE, max_file_size_mb |-> 50]

\* getSupportedFormats() when the exchange goes as net says: the parsed
\* body is returned as it is, whatever the status of the response
getSupportedFormats(net) ==
  IF net.resolves /\ net.bodyRead THEN [throws |-> FALSE, value |-> net.data]
  ELSE [throws |-> FALSE, value |-> DefaultFormats]

\* the note, track and model objects built by parseMidiBlob
ParsedNote(note) ==
  [hasName |-> note.hasName, name |-> note.name, midi |-> note.midi,
   time |-> note.time, duration |-> note.duration, pitch |-> note.pitch,
   octave |-> note.octave]

ParsedTrack(track) ==
  [hasNotes |-> TRUE,
   notes |-> [i \in 1..Len(track.notes) |-> ParsedNote(track.notes[i])],
   hasInstrument |-> track.hasInstrument, instrument |-> track.instrument]

\* the try block of parseMidiBlob: an exception when the blob is null or
\* cannot be read, when Midi() rejects the bytes, when tracks or a notes
\* list is missing
ParseThrows(blob) ==
  \/ blob.isNull
  \/ ~blob.readable
  \/ ~blob.decodable
  \/ ~blob.midi.hasTracks
  \/ \E i \in 1..Len(blob.midi.tracks) : ~blob.midi.tracks[i].hasNotes

ParseFailure == "Failed to parse MIDI file"

\* the catch clause passes the cause on instead of the fixed message
parseMidiBlobRethrow(blob) ==
  IF ParseThrows(blob)
  THEN [throws |-> TRUE, message |-> "Invalid MIDI data", value |-> <<>>,
        logged |-> TRUE]
  ELSE LET midi == blob.midi
       IN [throws |-> FALSE, message |-> "", logged |-> FALSE,
           value |-> <<[isNull |-> FALSE,
                        hasName |-> midi.hasName, name |-> midi.name,
                        hasDuration |-> midi.hasDuration,
                        duration |-> midi.duration,
                        hasTracks |-> TRUE,
                        tracks |-> [i \in 1..Len(midi.tracks) |->
                                      ParsedTrack(midi.tracks[i])]]>>]

\* parseMidiBlob(midiBlob): value is <<model>> when the promise resolves,
\* message is the message of the error it rejects with
parseMidiBlob(blob) ==
  IF ParseThrows(blob)
  THEN [throws |-> TRUE, message |-> ParseFailure, value |-> <<>>,
        logged |-> TRUE]
  ELSE LET midi == blob.midi
       IN [throws |-> FALSE, message |-> "", logged |-> FALSE,
           value |-> <<[isNull |-> FALSE,
                        hasName |-> midi.hasName, name |-> midi.name,
                        hasDuration |-> midi.hasDuration,
                        duration |-> midi.duration,
                        hasTracks |-> TRUE,
                        tracks |-> [i \in 1..Len(midi.tracks) |->
                                      ParsedTrack(midi.tracks[i])]]>>]

(***************************************************************************)
(* Calls of the service functions: the arguments and network behaviours    *)
(* explored.                                                               *)
(***************************************************************************)
NoRequest == [fn |-> "none"]

ErrorStrings ==
  DOMAIN errorMessages
  \cup {"Transcription failed", "Failed to parse MIDI file", "Failed to fetch",
        "", "Unknown error", "file too large", "constructor", "toString",
        "hasOwnProperty", "__proto__"}

NullFile == [isNull |-> TRUE, name |-> <<>>, size |-> 0]
File(name, size) == [isNull |-> FALSE, name |-> name, size |-> size]

FileNames ==
  {<<"a", ".", "w", "a", "v">>, <<"A", ".", "W", "A", "V">>,
   <<"a", ".", "b", ".", "m", "p", "3">>, <<"a", ".", "t", "x", "t">>,
   <<"a", ".", "w", "a", "v", ".", "t", "x", "t">>, <<".", "f", "l", "a", "c">>,
   <<"a", ".">>, <<"w", "a", "v">>, <<"s", "o", "n", "g">>, <<>>}

FormatLists == {<<wav, mp3, flac, m4a>>, <<wav>>, <<>>}

SizeLimitsMB == {1, 50}

\* sizes around the limit of maxSizeMB
SizesAround(maxSizeMB) ==
  {0, maxSizeMB * BytesPerMB - 1, maxSizeMB * BytesPerMB,
   maxSizeMB * BytesPerMB + 1}

ValidationRequests ==
  {[fn |-> "isValidAudioFile", file |-> NullFile,
    supportedFormats |-> <<wav, mp3, flac, m4a>>, maxSizeMB |-> 50]}
  \cup UNION {{[fn |-> "isValidAudioFile", file |-> File(name, size),
                supportedFormats |-> formats, maxSizeMB |-> limit] :
                 name \in FileNames, size \in SizesAround(limit),
                 formats \in FormatLists} : limit \in SizeLimitsMB}

MessageRequests == {[fn |-> "getErrorMessage", error |-> e] : e \in ErrorStrings}

\* a MIDI file of one track and two notes, as the service answers
MidiOfTwoNotes ==
  Model(TRUE, Song, TRUE, 4500, TRUE,
        <<Track(<<Note(1, 4, 0, 500), Note(3, 4, 500, 500)>>, Piano)>>)

Blob(readable, decodable, midi) ==
  [isNull |-> FALSE, readable |-> readable, decodable |-> decodable,
   midi |-> midi]

NullBlob ==
  [isNull |-> TRUE, readable |-> FALSE, decodable |-> FALSE,
   midi |-> MidiOfTwoNotes]

\* bodies of a non-OK answer: JSON null (for which errorData.error throws),
\* objects without an error, with an empty one and with an error string
ErrorBodies ==
  {[isNull |-> TRUE, hasError |-> FALSE, error |-> ""],
   [isNull |-> FALSE, hasError |-> FALSE, error |-> ""],
   [isNull |-> FALSE, hasError |-> TRUE, error |-> ""]}
  \cup {[isNull |-> FALSE, hasError |-> TRUE, error |-> e] :
          e \in {"File too large", "Internal server error", "Out of memory"}}

ThrownMessages == {"", "Failed to fetch"}

TranscribeExchanges ==
  {[resolves |-> r, ok |-> ok, bodyRead |-> b, message |-> m,
    errorData |-> e, blob |-> Blob(TRUE, TRUE, MidiOfTwoNotes)] :
     r \in BOOLEAN, ok \in BOOLEAN, b \in BOOLEAN, m \in ThrownMessages,
     e \in ErrorBodies}

UploadNames ==
  {<<"s", "o", "n", "g", ".", "w", "a", "v">>,
   <<"m", "y", ".", "s", "o", "n", "g", ".", "m", "p", "3">>}

TranscribeRequests ==
  {[fn |-> "transcribeAudio", audioFile |-> file, net |-> net] :
     file \in {NullFile} \cup {File(name, 1024) : name \in UploadNames},
     net \in TranscribeExchanges}

HealthBodies ==
  {[isNull |-> TRUE, hasStatus |-> FALSE, status |-> ""],
   [isNull |-> FALSE, hasStatus |-> FALSE, status |-> ""]}
  \cup {[isNull |-> FALSE, hasStatus |-> TRUE, status |-> s] :
          s \in {"healthy", "unhealthy", "Healthy", "ok", ""}}

HealthExchanges ==
  {[resolves |-> r, ok |-> ok, bodyRead |-> b, data |-> d,
    simpleResolves |-> s] :
     r \in BOOLEAN, ok \in BOOLEAN, b \in BOOLEAN, d \in HealthBodies,
     s \in BOOLEAN}

HealthRequests == {[fn |-> "checkBackendHealth", health |-> net] : net \in HealthExchanges}

\* bodies of the answer to /formats: the documented one, JSON null, an
\* error object, an object with a list but no size
FormatBodies ==
  {[isNull |-> FALSE, hasFormats |-> TRUE, supported_formats |-> <<wav, mp3>>,
    hasMaxSize |-> TRUE, max_file_size_mb |-> 25],
   DefaultFormats,
   [isNull |-> TRUE, hasFormats |-> FALSE, supported_formats |-> <<>>,
    hasMaxSize |-> FALSE, max_file_size_mb |-> 0],
   [isNull |-> FALSE, hasFormats |-> FALSE, supported_formats |-> <<>>,
    hasMaxSize |-> FALSE, max_file_size_mb |-> 0],
   [isNull |-> FALSE, hasFormats |-> TRUE, supported_formats |-> <<wav>>,
    hasMaxSize |-> FALSE, max_file_size_mb |-> 0]}

FormatExchanges ==
  {[resolves |-> r, ok |-> ok, bodyRead |-> b, data |-> d] :
     r \in BOOLEAN, ok \in BOOLEAN, b \in BOOLEAN, d \in FormatBodies}

FormatRequests == {[fn |-> "getSupportedFormats", formats |-> net] : net \in FormatExchanges}

\* what Midi() may hand to parseMidiBlob: well-formed files, and objects
\* lacking tracks or a notes list
DecodedMidis == SummaryModels \cup (ShapeModels \ {NullModel})

ParseRequests ==
  {[fn |-> "parseMidiBlob", midiBlob |-> NullBlob]}
  \cup {[fn |-> "parseMidiBlob", midiBlob |-> Blob(r, d, midi)] :
          r \in BOOLEAN, d \in BOOLEAN, midi \in DecodedMidis}

Requests ==
  MessageRequests \cup ValidationRequests \cup TranscribeRequests
  \cup HealthRequests \cup FormatRequests \cup ParseRequests

(***************************************************************************)
(* App, FileUploader and SheetMusicViewer.                                 *)
(***************************************************************************)
Idle == <<>>

\* the useState initial values of App, FileUploader and SheetMusicViewer
Mounted ==
  /\ isTranscribing = FALSE
  /\ midiBlob = <<>>
  /\ midiFilename = <<>>
  /\ error = String("")
  /\ currentFile = <<>>
  /\ uploads = Idle
  /\ settled = "none"
  /\ processed = FALSE
  /\ viewerError = ""
  /\ supportedFormats = << <<>> >>
  /\ maxFileSize = <<50>>
  /\ formatsFetched = FALSE
  /\ crashed = FALSE
  /\ lastDrop = <<>>
  /\ lastEvent = "mount"
  /\ downloaded = <<>>
  /\ status = "checking"
  /\ mounted = TRUE
  /\ intervalSet = TRUE
  /\ ticks = 0
  /\ checksStarted = 1
  /\ checksCompleted = 0
  /\ lastCheck = <<>>

\* a truthy value of the error state: a non-empty string or any object,
\* and not the boolean false
Truthy(value) ==
  /\ value.kind # "boolean"
  /\ value.kind # "string" \/ value.text # ""

\* setError(value): React takes a function for an updater, calls it without
\* a receiver on the previous state and stores what it returns.  Object(prev)
\* is a String object wrapping the string prev; toString gives
\* '[object Undefined]'; isPrototypeOf gives false for a primitive before it
\* looks at its receiver; every other function inherited from
\* Object.prototype throws a TypeError for the missing receiver (kind
\* "TypeError": nothing is stored and the render fails).
SetState(prev, value) ==
  IF value.kind # "function" THEN value
  ELSE IF value.text = "constructor"
  THEN [kind |-> "object", text |-> prev.text]
  ELSE IF value.text = "toString"
  THEN String("[object Undefined]")
  ELSE IF value.text = "isPrototypeOf" /\ prev.kind # "object"
  THEN [kind |-> "boolean", text |-> "false"]
  ELSE [kind |-> "TypeError", text |-> ""]

\* {error && <p>{error}</p>}: a falsy value renders nothing, a string renders
\* as text and a String object, being iterable, as its characters;
\* Object.prototype is neither an element nor iterable, and React throws
\* 'Objects are not valid as a React child'
RendersError(value) ==
  ~Truthy(value) \/ value # ObjectPrototype["__proto__"]

ProcessingFailure == "Failed to process MIDI data for sheet music rendering"

\* the try, catch and finally of processMidiData for what the two encoders
\* return: convertMidiToVexFlow is called only after convertMidiToABC has
\* returned
ProcessingOutcome(abc, vexflow) ==
  IF abc.throws
  THEN [set |-> FALSE, abc |-> <<>>, vexflow |-> <<>>,
        error |-> ProcessingFailure,
        abcLogged |-> abc.logged, vexCalled |-> FALSE, vexLogged |-> FALSE]
  ELSE IF vexflow.throws
  THEN [set |-> FALSE, abc |-> <<>>, vexflow |-> <<>>,
        error |-> ProcessingFailure,
        abcLogged |-> abc.logged, vexCalled |-> TRUE,
        vexLogged |-> vexflow.logged]
  ELSE [set |-> TRUE, abc |-> abc.value, vexflow |-> vexflow.value,
        error |-> "",
        abcLogged |-> abc.logged, vexCalled |-> TRUE,
        vexLogged |-> vexflow.logged]

\* a fault logged by an encoder aborts the processing as an exception would
processMidiDataAbortOnFault(m) ==
  ProcessingOutcome(
    [throws |-> convertMidiToABC(m).logged,
     value |-> convertMidiToABC(m).value,
     logged |-> convertMidiToABC(m).logged],
    [throws |-> convertMidiToVexFlow(m).logged,
     value |-> convertMidiToVexFlow(m).value,
     logged |-> convertMidiToVexFlow(m).logged])

\* processMidiData of SheetMusicViewer: both encodings are computed inside
\* one try, and both states are set only after both calls returned
processMidiData(m) ==
  ProcessingOutcome(convertMidiToABC(m), convertMidiToVexFlow(m))

\* what the service may send back and what may be dropped on the uploader
MidiOfTwoTracks ==
  Model(TRUE, Song, TRUE, 4567, TRUE,
        <<Track(<<Note(1, 4, 0, 500), Note(3, 4, 500, 500)>>, Piano),
          Track(<<Note(5, 4, 0, 500)>>, Guitar)>>)

\* a file without tracks, and a decoded object whose second note has no
\* name (possible only when Midi() is replaced, as in the tests)
MidiWithoutTracks == Model(FALSE, <<>>, TRUE, 0, TRUE, <<>>)

MidiWithNamelessNote ==
  Model(TRUE, Song, TRUE, 4500, TRUE,
        <<Track(<<Note(1, 4, 0, 500), UnnamedNote(500, 500)>>, Piano),
          Track(<<Note(5, 4, 0, 500)>>, Guitar)>>)

AppBlobs ==
  {Blob(TRUE, TRUE, midi) :
     midi \in {MidiOfTwoNotes, MidiOfTwoTracks, MidiWithoutTracks,
               MidiWithNamelessNote}}
  \cup {Blob(TRUE, FALSE, MidiOfTwoNotes), Blob(FALSE, TRUE, MidiOfTwoNotes)}

AppErrorBodies ==
  {[isNull |-> TRUE, hasError |-> FALSE, error |-> ""],
   [isNull |-> FALSE, hasError |-> FALSE, error |-> ""]}
  \cup {[isNull |-> FALSE, hasError |-> TRUE, error |-> e] :
          e \in {"File too large", "Out of memory", "constructor", "valueOf",
                 "isPrototypeOf", "__proto__"}}

Exchange(resolves, ok, bodyRead, message, errorData, blob) ==
  [resolves |-> resolves, ok |-> ok, bodyRead |-> bodyRead,
   message |-> message, errorData |-> errorData, blob |-> blob]

AppExchanges ==
  {Exchange(FALSE, FALSE, FALSE, m, [isNull |-> FALSE, hasError |-> FALSE, error |-> ""],
            Blob(TRUE, TRUE, MidiOfTwoNotes)) : m \in ThrownMessages}
  \cup {Exchange(TRUE, ok, FALSE, "Failed to fetch",
                 [isNull |-> FALSE, hasError |-> FALSE, error |-> ""],
                 Blob(TRUE, TRUE, MidiOfTwoNotes)) : ok \in BOOLEAN}
  \cup {Exchange(TRUE, TRUE, TRUE, "", [isNull |-> FALSE, hasError |-> FALSE, error |-> ""], b) :
          b \in AppBlobs}
  \cup {Exchange(TRUE, FALSE, TRUE, "", e, Blob(TRUE, TRUE, MidiOfTwoNotes)) :
          e \in AppErrorBodies}

DroppedFiles ==
  {File(<<"s", "o", "n", "g", ".", "w", "a", "v">>, 1024),
   File(<<"s", "o", "n", "g", ".", "m", "p", "3">>, 50 * BytesPerMB + 1),
   File(<<"a", ".", "t", "x", "t">>, 1024),
   File(<<"a", ".", "w", "a", "v">>, 2048)}

\* the answers to the uploader's request for the formats: each body with
\* status 200, the error body with status 500, no answer at all
AppFormatExchanges ==
  {[resolves |-> TRUE, ok |-> TRUE, bodyRead |-> TRUE, data |-> d] :
     d \in FormatBodies}
  \cup {[resolves |-> TRUE, ok |-> FALSE, bodyRead |-> TRUE,
         data |-> [isNull |-> FALSE, hasFormats |-> FALSE,
                   supported_formats |-> <<>>, hasMaxSize |-> FALSE,
                   max_file_size_mb |-> 0]],
        [resolves |-> FALSE, ok |-> FALSE, bodyRead |-> FALSE,
         data |-> DefaultFormats]}

\* what the dropzone hands to onDrop: the accepted files, and for each
\* rejected file the code of its first error ("" when it has none)
Drops ==
  {[accepted |-> a, rejected |-> <<>>] :
     a \in {<<>>} \cup {<<f>> : f \in DroppedFiles}
           \cup {<<File(<<"a", ".", "t", "x", "t">>, 1024),
                   File(<<"s", "o", "n", "g", ".", "w", "a", "v">>, 1024)>>}}
  \cup
  {[accepted |-> a, rejected |-> <<code>>] :
     a \in {<<>>, <<File(<<"s", "o", "n", "g", ".", "w", "a", "v">>, 1024)>>},
     code \in {"file-too-large", "file-invalid-type", ""}}

\* isValidAudioFile(file, supportedFormats, maxFileSize) with the states of
\* FileUploader: an undefined maxFileSize leaves the parameter's default
ValidForUpload(file, formats, maxSize) ==
  isValidAudioFile(file, formats, IF maxSize = <<>> THEN 50 ELSE maxSize[1])

\* rejected files are not looked at
onDropIgnoringRejections(drop, formats, maxSize) ==
  IF Len(drop.accepted) > 0
  THEN IF ValidForUpload(drop.accepted[1], formats, maxSize)
       THEN [alert |-> "", handed |-> <<drop.accepted[1]>>]
       ELSE [alert |-> "Please select a valid audio file", handed |-> <<>>]
  ELSE [alert |-> "", handed |-> <<>>]

\* onDrop(acceptedFiles, rejectedFiles): the alert it raises ("" for none;
\* the texts without their interpolated values) and the files it hands to
\* onFileUpload
onDrop(drop, formats, maxSize) ==
  IF Len(drop.rejected) > 0
  THEN [alert |-> CASE drop.rejected[1] = "file-too-large" ->
                         "File is too large"
                    [] drop.rejected[1] = "file-invalid-type" ->
                         "Invalid file type"
                    [] OTHER -> "Invalid file. Please try again.",
        handed |-> <<>>]
  ELSE IF Len(drop.accepted) > 0
  THEN IF ValidForUpload(drop.accepted[1], formats, maxSize)
       THEN [alert |-> "", handed |-> <<drop.accepted[1]>>]
       ELSE [alert |-> "Please select a valid audio file", handed |-> <<>>]
  ELSE [alert |-> "", handed |-> <<>>]

\* the sequence s without its i-th element
Remove(s, i) == SubSeq(s, 1, i - 1) \o SubSeq(s, i + 1, Len(s))

\* what App renders: {error && ...} and {midiData && !error && ...}, and
\* the placeholder of SheetMusicViewer for a null midiData
ErrorBanner == Truthy(error)
SuccessBanner == ~midiData.isNull /\ ~Truthy(error)
Placeholder == midiData.isNull

(***************************************************************************)
(* State machine: a model is given, and the three functions are applied to *)
(* it in any order, any number of times.                                   *)
(***************************************************************************)
Init ==
  /\ midiData \in Models
  /\ abcNotation = <<>>
  /\ vexFlowData = <<>>
  /\ midiSummary = <<>>
  /\ consoleErrors = {}
  /\ uncaught = {}
  /\ called = {}
  /\ repeated = {}
  /\ request = NoRequest
  /\ response = <<>>
  /\ Mounted

\* the effect of one call: its exception if any, its console output
Effects(fn, message, r) ==
  /\ uncaught' = IF r.throws THEN uncaught \cup {fn} ELSE uncaught
  /\ consoleErrors' = IF r.logged THEN consoleErrors \cup {message}
                      ELSE consoleErrors
  /\ called' = called \cup {fn}
  /\ repeated' = repeated \cup ({fn} \cap called)

ConvertMidiToABC ==
  LET r == convertMidiToABC(midiData)
  IN /\ abcNotation' = IF r.throws THEN abcNotation ELSE r.value
     /\ Effects("convertMidiToABC", "Error converting MIDI to ABC:", r)
     /\ midiData' = ModelAfterEncoding(midiData)
     /\ UNCHANGED <<vexFlowData, midiSummary>>
     /\ UNCHANGED <<apiVars, appVars>>

ConvertMidiToVexFlow ==
  LET r == convertMidiToVexFlow(midiData)
  IN /\ vexFlowData' = IF r.throws THEN vexFlowData ELSE r.value
     /\ Effects("convertMidiToVexFlow", "Error converting MIDI to VexFlow:", r)
     /\ midiData' = ModelAfterEncoding(midiData)
     /\ UNCHANGED <<abcNotation, midiSummary>>
     /\ UNCHANGED <<apiVars, appVars>>

GetMidiSummary ==
  LET r == getMidiSummary(midiData)
  IN /\ midiSummary' = IF r.throws THEN midiSummary ELSE r.value
     /\ Effects("getMidiSummary", "Error getting MIDI summary:", r)
     /\ UNCHANGED <<midiData, abcNotation, vexFlowData>>
     /\ UNCHANGED <<apiVars, appVars>>

Next == ConvertMidiToABC \/ ConvertMidiToVexFlow \/ GetMidiSummary

Spec == Init /\ [][Next]_vars

(***************************************************************************)
(* State machine of the service functions: a call is given, the function   *)
(* it names is applied and its result recorded.                            *)
(***************************************************************************)
InitApi ==
  /\ request \in Requests
  /\ response = <<>>
  /\ midiData = NullModel
  /\ abcNotation = <<>>
  /\ vexFlowData = <<>>
  /\ midiSummary = <<>>
  /\ consoleErrors = {}
  /\ uncaught = {}
  /\ called = {}
  /\ repeated = {}
  /\ Mounted

Returns(fn, result) ==
  /\ request.fn = fn
  /\ response = <<>>
  /\ response' = <<result>>
  /\ UNCHANGED <<request, viewVars, appVars>>

GetErrorMessage ==
  /\ request.fn = "getErrorMessage"
  /\ Returns("getErrorMessage", getErrorMessage(request.error))

IsValidAudioFile ==
  /\ request.fn = "isValidAudioFile"
  /\ Returns("isValidAudioFile",
             isValidAudioFile(request.file, request.supportedFormats,
                              request.maxSizeMB))

TranscribeAudio ==
  /\ request.fn = "transcribeAudio"
  /\ Returns("transcribeAudio", transcribeAudio(request.audioFile, request.net))

CheckBackendHealth ==
  /\ request.fn = "checkBackendHealth"
  /\ Returns("checkBackendHealth", checkBackendHealth(request.health))

GetSupportedFormats ==
  /\ request.fn = "getSupportedFormats"
  /\ Returns("getSupportedFormats", getSupportedFormats(request.formats))

ParseMidiBlob ==
  /\ request.fn = "parseMidiBlob"
  /\ Returns("parseMidiBlob", parseMidiBlob(request.midiBlob))

NextApi ==
  \/ GetErrorMessage
  \/ IsValidAudioFile
  \/ TranscribeAudio
  \/ CheckBackendHealth
  \/ GetSupportedFormats
  \/ ParseMidiBlob

SpecApi == InitApi /\ [][NextApi]_vars

(***************************************************************************)
(* State machine of the application: the uploader fetches the formats,     *)
(* files are dropped, handleFileUpload runs from one await to the next,    *)
(* the viewer's effect encodes the model, the user resets.                 *)
(***************************************************************************)
InitApp ==
  /\ midiData = NullModel
  /\ abcNotation = <<>>
  /\ vexFlowData = <<>>
  /\ midiSummary = <<>>
  /\ consoleErrors = {}
  /\ uncaught = {}
  /\ called = {}
  /\ repeated = {}
  /\ request = NoRequest
  /\ response = <<>>
  /\ Mounted

viewerVars == <<abcNotation, vexFlowData, viewerError, consoleErrors,
                uncaught, called, repeated>>
uploaderVars == <<supportedFormats, maxFileSize, formatsFetched, crashed>>

\* the effect of SheetMusicViewer for the midiData committed last has not
\* run yet
EffectPending == ~midiData.isNull /\ ~processed

\* the states set and the lines logged by processMidiData with outcome r,
\* in a step that also writes lines to the console
ApplyEffect(r, lines) ==
  /\ abcNotation' = IF r.set THEN r.abc ELSE abcNotation
  /\ vexFlowData' = IF r.set THEN r.vexflow ELSE vexFlowData
  /\ viewerError' = r.error
  /\ consoleErrors' =
       consoleErrors \cup lines
       \cup (IF r.abcLogged THEN {"Error converting MIDI to ABC:"} ELSE {})
       \cup (IF r.vexLogged THEN {"Error converting MIDI to VexFlow:"}
             ELSE {})
       \cup (IF r.set THEN {} ELSE {"MIDI processing error:"})
  /\ called' =
       called \cup {"convertMidiToABC"}
       \cup (IF r.vexCalled THEN {"convertMidiToVexFlow"} ELSE {})
  /\ repeated' =
       repeated \cup ({"convertMidiToABC"} \cap called)
       \cup (IF r.vexCalled THEN {"convertMidiToVexFlow"} \cap called ELSE {})

\* useEffect(() => { if (midiData) processMidiData() }, [midiData]): React
\* runs the effects of a render before it handles the next event or
\* renders again, so every step that sets a state begins with the pending
\* effect; lines are what the step itself writes to the console
FlushEffects(lines) ==
  /\ IF EffectPending
     THEN ApplyEffect(processMidiData(midiData), lines)
     ELSE /\ consoleErrors' = consoleErrors \cup lines
          /\ UNCHANGED <<abcNotation, vexFlowData, viewerError, called,
                         repeated>>
  /\ UNCHANGED uncaught

\* the effect of FileUploader: fetchFormats, and the render that follows
FetchFormats ==
  /\ ~crashed
  /\ UNCHANGED statusVars
  /\ ~formatsFetched
  /\ \E net \in AppFormatExchanges :
       LET r == getSupportedFormats(net)
           formatData == r.value
       IN /\ request' = [fn |-> "getSupportedFormats", formats |-> net]
          /\ response' = <<r>>
          /\ IF formatData.isNull
             THEN /\ supportedFormats' = <<DefaultFormats.supported_formats>>
                  /\ maxFileSize' = <<DefaultFormats.max_file_size_mb>>
             ELSE /\ supportedFormats' =
                       IF formatData.hasFormats
                       THEN <<formatData.supported_formats>> ELSE <<>>
                  /\ maxFileSize' =
                       IF formatData.hasMaxSize
                       THEN <<formatData.max_file_size_mb>> ELSE <<>>
          /\ FlushEffects(IF FormatsErrorLogged(net)
                          THEN {"Failed to get supported formats:"} ELSE {})
  /\ formatsFetched' = TRUE
  /\ crashed' = (supportedFormats' = <<>>)
  /\ lastDrop' = <<>>
  /\ downloaded' = <<>>
  /\ lastEvent' = "formats"
  /\ processed' = (processed \/ EffectPending)
  /\ UNCHANGED <<midiData, midiSummary, isTranscribing, midiBlob,
                 midiFilename, error, currentFile, uploads, settled>>

\* an upload that starts without clearing the model of the previous one
StartUploadKeepingModel(file) ==
  /\ isTranscribing' = TRUE
  /\ error' = SetState(error, String(""))
  /\ currentFile' = <<file>>
  /\ uploads' = Append(uploads, [stage |-> "transcribing", file |-> file])
  /\ settled' = "none"
  /\ processed' = FALSE
  /\ UNCHANGED <<midiData, midiSummary, midiBlob, midiFilename,
                 uploaderVars, apiVars>>

\* the statements of handleFileUpload before its first await
StartUpload(file) ==
  /\ isTranscribing' = TRUE
  /\ error' = SetState(error, String(""))
  /\ currentFile' = <<file>>
  /\ midiData' = NullModel
  /\ midiSummary' = <<>>
  /\ uploads' = Append(uploads, [stage |-> "transcribing", file |-> file])
  /\ settled' = "none"
  /\ processed' = FALSE
  /\ UNCHANGED <<midiBlob, midiFilename, uploaderVars, apiVars>>

\* the dropzone hands drops to onDrop at any time
DropzoneNeverDisabled == FALSE

\* useDropzone({..., disabled: isTranscribing})
DropzoneDisabled == isTranscribing

\* a drop on the uploader, handled by onDrop
OnDrop ==
  /\ ~crashed
  /\ UNCHANGED statusVars
  /\ ~DropzoneDisabled
  /\ Len(uploads) < MaxPending
  /\ \E drop \in Drops :
       LET r == onDrop(drop, supportedFormats[1], maxFileSize)
       IN /\ lastDrop' = <<[accepted |-> drop.accepted,
                            rejected |-> drop.rejected,
                            alert |-> r.alert, handed |-> r.handed]>>
          /\ lastEvent' = "drop"
          /\ downloaded' = <<>>
          /\ FlushEffects({})
          /\ IF r.handed # <<>>
             THEN StartUpload(r.handed[1])
             ELSE /\ processed' = (processed \/ EffectPending)
                  /\ UNCHANGED <<midiData, midiSummary, apiVars,
                                 isTranscribing, midiBlob, midiFilename,
                                 error, currentFile, uploads, settled,
                                 uploaderVars>>

\* the catch and finally clauses of handleFileUpload, for the i-th pending
\* call; an updater that throws, or a stored value that is not a valid
\* child, makes the render of App throw
FailUpload(i, message) ==
  /\ LET next == SetState(error, getErrorMessage(message))
     IN /\ error' = IF next.kind = "TypeError" THEN error ELSE next
        /\ crashed' = (next.kind = "TypeError" \/ ~RendersError(next))
  /\ isTranscribing' = FALSE
  /\ uploads' = Remove(uploads, i)
  /\ settled' = "failed"

\* the blob and the file name of a successful answer are not stored
TranscribeCompletesKeepingBlob ==
  /\ ~crashed
  /\ UNCHANGED statusVars
  /\ \E i \in 1..Len(uploads) :
       /\ uploads[i].stage = "transcribing"
       /\ \E net \in AppExchanges :
            /\ LET result == transcribeAudio(uploads[i].file, net)
               IN IF result.success
               THEN /\ UNCHANGED <<midiBlob, midiFilename>>
                    /\ uploads' =
                         [uploads EXCEPT ![i] =
                            [stage |-> "parsing", file |-> uploads[i].file,
                             midiFile |-> result.midiFile[1]]]
                    /\ UNCHANGED <<error, isTranscribing, settled, crashed>>
               ELSE /\ FailUpload(i, result.error)
                    /\ UNCHANGED <<midiBlob, midiFilename>>
            /\ consoleErrors' =
                 IF TranscriptionErrorLogged(uploads[i].file, net)
                 THEN consoleErrors \cup {"Transcription error:"}
                 ELSE consoleErrors
  /\ lastDrop' = <<>>
  /\ downloaded' = <<>>
  /\ lastEvent' = "transcribed"
  /\ UNCHANGED <<midiData, midiSummary, currentFile, processed, abcNotation,
                 vexFlowData, viewerError, uncaught, called, repeated,
                 supportedFormats, maxFileSize, formatsFetched, apiVars>>

\* handleFileUpload from the answer of transcribeAudio to its next await
TranscribeCompletes ==
  /\ ~crashed
  /\ UNCHANGED statusVars
  /\ \E i \in 1..Len(uploads) :
       /\ uploads[i].stage = "transcribing"
       /\ \E net \in AppExchanges :
            /\ LET result == transcribeAudio(uploads[i].file, net)
               IN IF result.success
               THEN /\ midiBlob' = result.midiFile
                    /\ midiFilename' = result.filename
                    /\ uploads' =
                         [uploads EXCEPT ![i] =
                            [stage |-> "parsing", file |-> uploads[i].file,
                             midiFile |-> result.midiFile[1]]]
                    /\ UNCHANGED <<error, isTranscribing, settled, crashed>>
               ELSE /\ FailUpload(i, result.error)
                    /\ UNCHANGED <<midiBlob, midiFilename>>
            /\ consoleErrors' =
                 IF TranscriptionErrorLogged(uploads[i].file, net)
                 THEN consoleErrors \cup {"Transcription error:"}
                 ELSE consoleErrors
  /\ lastDrop' = <<>>
  /\ downloaded' = <<>>
  /\ lastEvent' = "transcribed"
  /\ UNCHANGED <<midiData, midiSummary, currentFile, processed, abcNotation,
                 vexFlowData, viewerError, uncaught, called, repeated,
                 supportedFormats, maxFileSize, formatsFetched, apiVars>>

\* handleFileUpload from the settling of parseMidiBlob to its end
ParseCompletes ==
  /\ ~crashed
  /\ UNCHANGED statusVars
  /\ \E i \in 1..Len(uploads) :
       /\ uploads[i].stage = "parsing"
       /\ LET parsed == parseMidiBlob(uploads[i].midiFile)
          IN IF parsed.throws
             THEN /\ FailUpload(i, parsed.message)
                  /\ consoleErrors' =
                       consoleErrors \cup {"Error parsing MIDI blob:"}
                  /\ UNCHANGED <<midiData, midiSummary, called, repeated,
                                 processed>>
             ELSE LET summary == getMidiSummary(parsed.value[1])
                  IN /\ midiData' = parsed.value[1]
                     /\ midiSummary' = summary.value
                     /\ processed' = FALSE
                     /\ UNCHANGED <<error, crashed>>
                     /\ isTranscribing' = FALSE
                     /\ uploads' = Remove(uploads, i)
                     /\ settled' = "succeeded"
                     /\ called' = called \cup {"getMidiSummary"}
                     /\ repeated' =
                          repeated \cup ({"getMidiSummary"} \cap called)
                     /\ consoleErrors' =
                          IF summary.logged
                          THEN consoleErrors
                               \cup {"Error getting MIDI summary:"}
                          ELSE consoleErrors
  /\ lastDrop' = <<>>
  /\ downloaded' = <<>>
  /\ lastEvent' = "parsed"
  /\ UNCHANGED <<midiBlob, midiFilename, currentFile, abcNotation,
                 vexFlowData, viewerError, uncaught, supportedFormats,
                 maxFileSize, formatsFetched, apiVars>>

\* the effect of SheetMusicViewer on a new non-null midiData, run before
\* any other step that sets a state
ProcessMidiData ==
  /\ ~crashed
  /\ UNCHANGED statusVars
  /\ EffectPending
  /\ FlushEffects({})
  /\ processed' = TRUE
  /\ lastDrop' = <<>>
  /\ downloaded' = <<>>
  /\ lastEvent' = "processed"
  /\ UNCHANGED <<midiData, midiSummary, isTranscribing, midiBlob,
                 midiFilename, error, currentFile, uploads, settled,
                 uploaderVars, apiVars>>

\* a reset that keeps the MIDI blob and its file name
HandleResetKeepingBlob ==
  /\ ~crashed
  /\ UNCHANGED statusVars
  /\ Truthy(error) \/ ~midiData.isNull
  /\ midiData' = NullModel
  /\ midiSummary' = <<>>
  /\ error' = SetState(error, String(""))
  /\ currentFile' = <<>>
  /\ settled' = "none"
  /\ processed' = FALSE
  /\ lastDrop' = <<>>
  /\ downloaded' = <<>>
  /\ lastEvent' = IF Truthy(error) THEN "resetFromError"
                  ELSE "resetFromSuccess"
  /\ FlushEffects({})
  /\ UNCHANGED <<midiBlob, midiFilename, isTranscribing, uploads,
                 uploaderVars, apiVars>>

\* handleReset, from the button of the error banner ({error && ...}) or of
\* the success banner ({midiData && !error && ...})
HandleReset ==
  /\ ~crashed
  /\ UNCHANGED statusVars
  /\ Truthy(error) \/ ~midiData.isNull
  /\ midiData' = NullModel
  /\ midiSummary' = <<>>
  /\ midiBlob' = <<>>
  /\ midiFilename' = <<>>
  /\ error' = SetState(error, String(""))
  /\ currentFile' = <<>>
  /\ settled' = "none"
  /\ processed' = FALSE
  /\ lastDrop' = <<>>
  /\ downloaded' = <<>>
  /\ lastEvent' = IF Truthy(error) THEN "resetFromError"
                  ELSE "resetFromSuccess"
  /\ FlushEffects({})
  /\ UNCHANGED <<isTranscribing, uploads, uploaderVars, apiVars>>

\* downloadMidiFile(midiBlob, filename): what the browser is given to save
downloadMidiFile(blob, filename) == <<[blob |-> blob, filename |-> filename]>>

\* if (midiBlob && midiFilename) downloadMidiFile(midiBlob, midiFilename):
\* what the browser is given to save, <<>> for nothing
handleDownload(blob, filename) ==
  IF blob # <<>> /\ filename # <<>>
  THEN downloadMidiFile(blob[1], filename)
  ELSE <<>>

\* handleDownload, from the button of the success banner or of the viewer,
\* both rendered only for a non-null midiData; it sets no state, so no
\* render follows and a pending effect stays pending
HandleDownload ==
  /\ ~crashed
  /\ UNCHANGED statusVars
  /\ ~midiData.isNull
  /\ downloaded' = handleDownload(midiBlob, midiFilename)
  /\ lastDrop' = <<>>
  /\ lastEvent' = "download"
  /\ UNCHANGED <<midiData, midiSummary, apiVars, isTranscribing, midiBlob,
                 midiFilename, error, currentFile, uploads, settled,
                 processed, viewerVars, uploaderVars>>

NextApp ==
  \/ FetchFormats
  \/ OnDrop
  \/ TranscribeCompletes
  \/ ParseCompletes
  \/ ProcessMidiData
  \/ HandleReset
  \/ HandleDownload

SpecApp == InitApp /\ [][NextApp]_vars

(***************************************************************************)
(* BackendStatus: the initial check and the interval are running after the *)
(* mount; a check completes with what checkBackendHealth resolved to or    *)
(* with its rejection.                                                     *)
(***************************************************************************)
InitStatus == InitApp

\* what a call of checkBackendHealth can end with: the outcomes of the
\* service, and the rejection a replaced service can produce
HealthOutcomes ==
  {checkBackendHealth(net) : net \in HealthExchanges}
  \cup {[throws |-> TRUE, value |-> FALSE]}

\* checkStatus: the status it sets for the outcome of checkBackendHealth
checkStatus(outcome) ==
  IF outcome.throws THEN "offline"
  ELSE IF outcome.value THEN "online" ELSE "offline"

\* a tick of setInterval(checkStatus, 30000) starts a call of checkStatus
IntervalTick ==
  /\ intervalSet
  /\ ticks < MaxTicks
  /\ ticks' = ticks + 1
  /\ checksStarted' = checksStarted + 1
  /\ UNCHANGED <<status, mounted, intervalSet, checksCompleted, lastCheck,
                 viewVars, apiVars, uiVars>>

\* a pending call of checkStatus resumes after its await; React drops the
\* update of a component that is no longer mounted
CheckCompletes ==
  /\ checksCompleted < checksStarted
  /\ \E outcome \in HealthOutcomes :
       /\ lastCheck' = <<outcome>>
       /\ status' = IF mounted THEN checkStatus(outcome) ELSE status
  /\ checksCompleted' = checksCompleted + 1
  /\ UNCHANGED <<mounted, intervalSet, ticks, checksStarted,
                 viewVars, apiVars, uiVars>>

\* the component is unmounted and the interval stays set
UnmountLeavingInterval ==
  /\ mounted
  /\ mounted' = FALSE
  /\ UNCHANGED <<status, intervalSet, ticks, checksStarted, checksCompleted,
                 lastCheck, viewVars, apiVars, uiVars>>

\* the cleanup of the effect: () => clearInterval(interval)
Unmount ==
  /\ mounted
  /\ mounted' = FALSE
  /\ intervalSet' = FALSE
  /\ UNCHANGED <<status, ticks, checksStarted, checksCompleted, lastCheck,
                 viewVars, apiVars, uiVars>>

NextStatus ==
  \/ IntervalTick
  \/ CheckCompletes
  \/ Unmount

SpecStatus == InitStatus /\ [][NextStatus]_vars

(***************************************************************************)
(* Vocabulary of the properties, stated without the operators above.       *)
(***************************************************************************)
AbcCalled == "convertMidiToABC" \in called
VexCalled == "convertMidiToVexFlow" \in called
SummaryCalled == "getMidiSummary" \in called

HasFirstTrack(m) == ~m.isNull /\ m.hasTracks /\ Len(m.tracks) > 0

\* the faults of the two encoders: a null model, a first track without a
\* notes list, a first-track note without a name
FirstTrackFault(m) ==
  \/ m.isNull
  \/ /\ HasFirstTrack(m)
     /\ \/ ~m.tracks[1].hasNotes
        \/ \E i \in 1..Len(m.tracks[1].notes) : ~m.tracks[1].notes[i].hasName

\* the faults of the summary: a null model, an absent tracks list, a track
\* without a notes list
SummaryFault(m) ==
  \/ m.isNull
  \/ ~m.hasTracks
  \/ \E i \in 1..Len(m.tracks) : ~m.tracks[i].hasNotes

\* a model whose first track exists and is encoded without a fault
Encodable(m) == HasFirstTrack(m) /\ ~FirstTrackFault(m)

\* the notes of the first track in ascending order of time, notes of equal
\* time in their order in the notes list
StableOrder(notes) ==
  LET n == Len(notes)
      Before(j, k) == \/ notes[j].time < notes[k].time
                      \/ notes[j].time = notes[k].time /\ j < k
      Rank(k) == Cardinality({j \in 1..n : Before(j, k)}) + 1
  IN [i \in 1..n |-> notes[CHOOSE k \in 1..n : Rank(k) = i]]

FirstTrackInOrder == StableOrder(midiData.tracks[1].notes)

\* the text of s after its n-th line break
AfterLines(s, n) ==
  LET breaks == {i \in 1..Len(s) : s[i] = "\n"}
  IN IF Cardinality(breaks) < n THEN <<>>
     ELSE LET at == CHOOSE i \in breaks :
                      Cardinality({j \in breaks : j <= i}) = n
          IN SubSeq(s, at + 1, Len(s))

\* the tokens of a text: its maximal runs without a space or a line break
RECURSIVE SplitTokens(_, _, _, _)
SplitTokens(s, i, current, tokens) ==
  IF i > Len(s)
  THEN IF current = <<>> THEN tokens ELSE Append(tokens, current)
  ELSE IF s[i] \in {" ", "\n"}
       THEN SplitTokens(s, i + 1, <<>>,
                        IF current = <<>> THEN tokens ELSE Append(tokens, current))
       ELSE SplitTokens(s, i + 1, Append(current, s[i]), tokens)

\* the note tokens of the ABC document: what follows its five header lines
AbcTokens == SplitTokens(AfterLines(abcNotation, 5), 1, <<>>, <<>>)

IsDurationChar(c) == c \in {"/", "2", "4"}
IsPitchChar(c) == ~IsDurationChar(c)
IsNotSharp(c) == c # "^"

StartsWith(s, prefix) ==
  Len(s) >= Len(prefix) /\ SubSeq(s, 1, Len(prefix)) = prefix

\* the five header lines with a given title
HeaderLines(title) ==
  <<"X", ":", "1", "\n", "T", ":">> \o title
  \o <<"\n", "M", ":", "4", "/", "4", "\n", "L", ":", "1", "/", "4", "\n",
       "K", ":", "C", "\n">>

\* model.name when present and non-empty, 'Transcribed Audio' otherwise
ExpectedTitle(m) ==
  IF m.hasName /\ Len(m.name) > 0 THEN m.name
  ELSE <<"T", "r", "a", "n", "s", "c", "r", "i", "b", "e", "d", " ",
         "A", "u", "d", "i", "o">>

ErrorTitle == <<"E", "r", "r", "o", "r">>

\* the half-open duration buckets, as ABC suffix and as VexFlow code
BucketSuffix(d) ==
  CASE d < 250 -> <<"/", "4">>
    [] 250 <= d /\ d < 500 -> <<"/", "2">>
    [] 500 <= d /\ d < 1000 -> <<>>
    [] 1000 <= d /\ d < 2000 -> <<"2">>
    [] d >= 2000 -> <<"4">>

BucketCode(d) ==
  CASE d < 250 -> <<"1", "6">>
    [] 250 <= d /\ d < 500 -> <<"8">>
    [] 500 <= d /\ d < 1000 -> <<"q">>
    [] 1000 <= d /\ d < 2000 -> <<"h">>
    [] d >= 2000 -> <<"w">>

(***************************************************************************)
(* Properties.                                                             *)
(***************************************************************************)

\* C1: convertMidiToABC never throws, and on every faulting input (null
\* model, first track without notes, first-track note without a name) it
\* returns exactly the fallback document 'X:1\nT:Error\nM:4/4\nL:1/4\nK:C\nz4'.
AbcFailsClosed ==
  /\ "convertMidiToABC" \notin uncaught
  /\ (AbcCalled /\ FirstTrackFault(midiData))
       => abcNotation = HeaderLines(ErrorTitle) \o <<"z", "4">>

\* a fault at the second note, after the first token was appended
AbcFailsClosedWitness ==
  /\ AbcCalled
  /\ HasFirstTrack(midiData)
  /\ midiData.tracks[1].hasNotes
  /\ Len(midiData.tracks[1].notes) >= 2
  /\ midiData.tracks[1].notes[1].hasName
  /\ ~midiData.tracks[1].notes[2].hasName
  /\ "Error converting MIDI to ABC:" \in consoleErrors

\* C2: convertMidiToVexFlow never throws, and on every faulting input it
\* returns the empty sequence, without the descriptors built before the fault.
VexFailsClosed ==
  /\ "convertMidiToVexFlow" \notin uncaught
  /\ (VexCalled /\ FirstTrackFault(midiData)) => vexFlowData = <<>>

\* a fault at the last of three notes, after two descriptors were built
VexFailsClosedWitness ==
  /\ VexCalled
  /\ HasFirstTrack(midiData)
  /\ midiData.tracks[1].hasNotes
  /\ Len(midiData.tracks[1].notes) = 3
  /\ midiData.tracks[1].notes[1].hasName
  /\ midiData.tracks[1].notes[2].hasName
  /\ ~midiData.tracks[1].notes[3].hasName
  /\ "Error converting MIDI to VexFlow:" \in consoleErrors
  /\ vexFlowData = <<>>

\* C3: getMidiSummary never throws, and on a null model, an absent tracks
\* list or a track without a notes list it returns exactly the all-default
\* summary {Unknown, '0 seconds', 0, 0, Unknown}.
SummaryFailsClosed ==
  /\ "getMidiSummary" \notin uncaught
  /\ (SummaryCalled /\ SummaryFault(midiData))
       => midiSummary = <<[name |-> <<"U", "n", "k", "n", "o", "w", "n">>,
                           duration |-> <<"0", " ", "s", "e", "c", "o", "n", "d", "s">>,
                           tracks |-> 0,
                           totalNotes |-> 0,
                           instruments |-> <<"U", "n", "k", "n", "o", "w", "n">>]>>

\* a second track without a notes list, after a first track with a note
SummaryFailsClosedWitness ==
  /\ SummaryCalled
  /\ ~midiData.isNull
  /\ midiData.hasTracks
  /\ Len(midiData.tracks) = 2
  /\ midiData.tracks[1].hasNotes
  /\ Len(midiData.tracks[1].notes) > 0
  /\ ~midiData.tracks[2].hasNotes
  /\ "Error getting MIDI summary:" \in consoleErrors

\* C4: every note duration d, zero and negative included, gets the ABC
\* suffix and the VexFlow code of its half-open bucket: d<0.25 '/4' '16',
\* [0.25,0.5) '/2' '8', [0.5,1) '' 'q', [1,2) '2' 'h', d>=2 '4' 'w'.
DurationBuckets ==
  Encodable(midiData) =>
    LET notes == FirstTrackInOrder
    IN /\ AbcCalled =>
            /\ Len(AbcTokens) = Len(notes)
            /\ \A i \in 1..Len(notes) :
                 SelectSeq(AbcTokens[i], IsDurationChar)
                   = BucketSuffix(notes[i].duration)
       /\ VexCalled =>
            /\ Len(vexFlowData) = Len(notes)
            /\ \A i \in 1..Len(notes) :
                 vexFlowData[i].duration = BucketCode(notes[i].duration)

\* a note of negative duration encoded by both as a sixteenth
DurationBucketsWitness ==
  /\ AbcCalled /\ VexCalled
  /\ Encodable(midiData)
  /\ Len(midiData.tracks[1].notes) = 1
  /\ midiData.tracks[1].notes[1].duration < 0
  /\ vexFlowData[1].duration = <<"1", "6">>
  /\ SelectSeq(AbcTokens[1], IsDurationChar) = <<"/", "4">>

\* C5: a note of duration exactly 2.0 is a half note for both encoders
\* ('h' and suffix '2'); only durations above 2 are whole notes.
TwoSecondsIsHalf ==
  Encodable(midiData) =>
    LET notes == FirstTrackInOrder
    IN /\ (AbcCalled /\ Len(AbcTokens) = Len(notes)) =>
            \A i \in 1..Len(notes) :
              /\ notes[i].duration = 2000 =>
                   SelectSeq(AbcTokens[i], IsDurationChar) = <<"2">>
              /\ SelectSeq(AbcTokens[i], IsDurationChar) = <<"4">> =>
                   notes[i].duration > 2000
       /\ (VexCalled /\ Len(vexFlowData) = Len(notes)) =>
            \A i \in 1..Len(notes) :
              /\ notes[i].duration = 2000 => vexFlowData[i].duration = <<"h">>
              /\ vexFlowData[i].duration = <<"w">> => notes[i].duration > 2000

\* C6: for every pitch letter and octave o in 0..9 the ABC token is the
\* upper-case letter for o = 4, the upper-case letter and 4 - o commas for
\* o < 4, the lower-case letter and o - 5 apostrophes for o >= 5.
OctaveMarks ==
  (Encodable(midiData) /\ AbcCalled /\ Len(AbcTokens) = Len(FirstTrackInOrder)) =>
    \A i \in 1..Len(FirstTrackInOrder) :
      LET note == FirstTrackInOrder[i]
          letter == <<note.pitch[1]>>
          o == note.octave
          marked == SelectSeq(SelectSeq(AbcTokens[i], IsPitchChar), IsNotSharp)
      IN o \in 0..9 =>
           marked = IF o = 4 THEN letter
                    ELSE IF o < 4 THEN letter \o [k \in 1..(4 - o) |-> ","]
                    ELSE toLowerCase(letter) \o [k \in 1..(o - 5) |-> "'"]

\* C7: tokens and descriptors are in ascending order of time, notes of equal
\* time in their order in the notes list.
EncodersSortStably ==
  Encodable(midiData) =>
    LET notes == FirstTrackInOrder
    IN /\ AbcCalled =>
            AbcTokens = [i \in 1..Len(notes) |-> convertNoteToABC(notes[i]).value]
       /\ VexCalled =>
            /\ [i \in 1..Len(vexFlowData) |->
                  <<vexFlowData[i].midi, vexFlowData[i].time>>]
                 = [i \in 1..Len(notes) |-> <<notes[i].midi, notes[i].time>>]
            /\ \A i \in 1..(Len(vexFlowData) - 1) :
                 vexFlowData[i].time <= vexFlowData[i + 1].time

\* three notes out of order, two of them different notes of the same time
EncodersSortStablyWitness ==
  /\ AbcCalled /\ VexCalled
  /\ Encodable(midiData)
  /\ Len(midiData.tracks[1].notes) = 3
  /\ midiData.tracks[1].notes[1].time > midiData.tracks[1].notes[2].time
  /\ midiData.tracks[1].notes[2].time = midiData.tracks[1].notes[3].time
  /\ midiData.tracks[1].notes[2].midi # midiData.tracks[1].notes[3].midi
  /\ vexFlowData[1].midi = midiData.tracks[1].notes[2].midi
  /\ vexFlowData[2].midi = midiData.tracks[1].notes[3].midi

\* C8: with an empty or absent tracks list convertMidiToABC returns the five
\* header lines only and convertMidiToVexFlow the empty sequence; with an
\* empty tracks list getMidiSummary reports 0 tracks and 0 notes; none of
\* them goes through its error fallback.
EmptyModel ==
  (~midiData.isNull /\ (~midiData.hasTracks \/ midiData.tracks = <<>>)) =>
    /\ AbcCalled =>
         /\ abcNotation = HeaderLines(ExpectedTitle(midiData))
         /\ "Error converting MIDI to ABC:" \notin consoleErrors
    /\ VexCalled =>
         /\ vexFlowData = <<>>
         /\ "Error converting MIDI to VexFlow:" \notin consoleErrors
    /\ (SummaryCalled /\ midiData.hasTracks) =>
         /\ Len(midiSummary) = 1
         /\ midiSummary[1].tracks = 0
         /\ midiSummary[1].totalNotes = 0
         /\ "Error getting MIDI summary:" \notin consoleErrors

\* the model {name: 'Song', tracks: []} after the three calls
EmptyModelWitness ==
  /\ AbcCalled /\ VexCalled /\ SummaryCalled
  /\ ~midiData.isNull
  /\ midiData.hasTracks /\ midiData.tracks = <<>>
  /\ midiData.hasName /\ midiData.name = Song
  /\ consoleErrors = {}
  /\ Len(midiSummary) = 1

\* C9 as stated: for every non-null model the document begins with 'X:1',
\* 'T:<title>', 'M:4/4', 'L:1/4', 'K:C', the title being model.name when
\* present and non-empty and 'Transcribed Audio' otherwise.
HeaderOfEveryModel ==
  (AbcCalled /\ ~midiData.isNull) =>
    StartsWith(abcNotation, HeaderLines(ExpectedTitle(midiData)))

\* C9 amended: for every non-null model encoded without a fault the document
\* begins with these five lines and this title; when a fault occurs the title
\* is 'Error'; 'X:1', 'M:4/4', 'L:1/4', 'K:C' are the same in every case.
HeaderOfEncodedModel ==
  (AbcCalled /\ ~midiData.isNull) =>
    IF FirstTrackFault(midiData)
    THEN StartsWith(abcNotation, HeaderLines(ErrorTitle))
    ELSE StartsWith(abcNotation, HeaderLines(ExpectedTitle(midiData)))

\* a model with an empty name and notes, titled 'Transcribed Audio'
HeaderOfEncodedModelWitness ==
  /\ AbcCalled
  /\ Encodable(midiData)
  /\ midiData.hasName /\ midiData.name = <<>>
  /\ Len(midiData.tracks[1].notes) > 0
  /\ Len(AbcTokens) > 0
  /\ StartsWith(abcNotation, HeaderLines(ExpectedTitle(midiData)))

\* C10: every note of the first track yields a descriptor whose keys is the
\* one-element list of the pitch name with '/' before the octave digits, and
\* whose midi and time are the note's.
DescriptorShape ==
  (VexCalled /\ Encodable(midiData)) =>
    LET notes == FirstTrackInOrder
    IN /\ Len(vexFlowData) = Len(notes)
       /\ \A i \in 1..Len(notes) :
            /\ vexFlowData[i].keys
                 = << notes[i].pitch \o <<"/">> \o NatToString(notes[i].octave) >>
            /\ vexFlowData[i].midi = notes[i].midi
            /\ vexFlowData[i].time = notes[i].time

\* the note C#5 encoded with the key 'C#/5'
DescriptorShapeWitness ==
  /\ VexCalled
  /\ Encodable(midiData)
  /\ \E i \in 1..Len(vexFlowData) :
       /\ vexFlowData[i].keys = << <<"C", "#", "/", "5">> >>
       /\ vexFlowData[i].midi = 73

\* C11: for a model whose tracks all have a notes list, the summary has
\* tracks = number of tracks, totalNotes = sum of the note counts,
\* instruments = the instrument names joined by ', ' with 'Piano' for a track
\* without one, duration = the duration rounded to 2 decimals and ' seconds',
\* name = model.name or 'Transcribed Audio'.
RECURSIVE CommaList(_, _)
CommaList(names, k) ==
  IF k = 0 THEN <<>>
  ELSE IF k = 1 THEN names[1]
  ELSE CommaList(names, k - 1) \o <<",", " ">> \o names[k]

RECURSIVE TotalNotes(_, _)
TotalNotes(tracks, k) ==
  IF k = 0 THEN 0 ELSE TotalNotes(tracks, k - 1) + Len(tracks[k].notes)

\* text is a decimal number of at most two decimals, the nearest to ms
\* milliseconds, followed by ' seconds'
IsRoundedSeconds(text, ms) ==
  /\ Len(text) > 8
  /\ SubSeq(text, Len(text) - 7, Len(text))
       = <<" ", "s", "e", "c", "o", "n", "d", "s">>
  /\ LET number == SubSeq(text, 1, Len(text) - 8)
         dots == {i \in 1..Len(number) : number[i] = "."}
         dot == IF dots = {} THEN Len(number) + 1 ELSE CHOOSE i \in dots : TRUE
         whole == SubSeq(number, 1, dot - 1)
         decimals == SubSeq(number, dot + 1, Len(number))
     IN /\ Cardinality(dots) <= 1
        /\ Len(whole) >= 1
        /\ \A i \in 1..Len(whole) : IsDigit(whole[i])
        /\ \A i \in 1..Len(decimals) : IsDigit(decimals[i])
        /\ dots # {} => Len(decimals) \in {1, 2}
        /\ LET hundredths ==
                 100 * parseInt(whole)
                 + (IF Len(decimals) = 1 THEN 10 * parseInt(decimals)
                    ELSE parseInt(decimals))
           IN /\ 10 * hundredths - ms <= 5
              /\ ms - 10 * hundredths <= 5

SummaryAggregation ==
  (SummaryCalled /\ ~SummaryFault(midiData) /\ midiData.hasDuration) =>
    /\ Len(midiSummary) = 1
    /\ LET tracks == midiData.tracks
           summary == midiSummary[1]
       IN /\ summary.tracks = Len(tracks)
          /\ summary.totalNotes = TotalNotes(tracks, Len(tracks))
          /\ summary.instruments
               = CommaList([i \in 1..Len(tracks) |->
                              IF tracks[i].hasInstrument /\ Len(tracks[i].instrument) > 0
                              THEN tracks[i].instrument
                              ELSE <<"P", "i", "a", "n", "o">>],
                           Len(tracks))
          /\ IsRoundedSeconds(summary.duration, midiData.duration)
          /\ summary.name = ExpectedTitle(midiData)

\* two tracks of 2 and 1 notes, Piano and Guitar, 4.567 seconds
SummaryAggregationWitness ==
  /\ SummaryCalled
  /\ ~SummaryFault(midiData)
  /\ midiData.hasDuration /\ midiData.duration = 4567
  /\ Len(midiData.tracks) = 2
  /\ Len(midiData.tracks[1].notes) = 2
  /\ Len(midiData.tracks[2].notes) = 1
  /\ midiSummary[1].tracks = 2
  /\ midiSummary[1].totalNotes = 3
  /\ midiSummary[1].instruments
       = <<"P", "i", "a", "n", "o", ",", " ", "G", "u", "i", "t", "a", "r">>
  /\ midiSummary[1].duration
       = <<"4", ".", "5", "7", " ", "s", "e", "c", "o", "n", "d", "s">>

\* C20: a line break follows every 8th token except the final one: every
\* line but the last holds 8 tokens, the last line holds 1 to 8 tokens, and
\* the document does not end with a line break.
RECURSIVE SplitLines(_, _, _, _)
SplitLines(s, i, current, lines) ==
  IF i > Len(s) THEN Append(lines, current)
  ELSE IF s[i] = "\n" THEN SplitLines(s, i + 1, <<>>, Append(lines, current))
  ELSE SplitLines(s, i + 1, Append(current, s[i]), lines)

LineWrapping ==
  (AbcCalled /\ Encodable(midiData) /\ Len(midiData.tracks[1].notes) > 0) =>
    LET body == AfterLines(abcNotation, 5)
        lines == SplitLines(body, 1, <<>>, <<>>)
        count(k) == Len(SplitTokens(lines[k], 1, <<>>, <<>>))
    IN /\ body[Len(body)] # "\n"
       /\ \A k \in 1..(Len(lines) - 1) : count(k) = 8
       /\ count(Len(lines)) \in 1..8

(***************************************************************************)
(* Properties of the service functions.                                    *)
(***************************************************************************)
Answered(fn) == request.fn = fn /\ response # <<>>

\* C12: parseMidiBlob rejects with 'Failed to parse MIDI file' when the blob
\* cannot be read or decoded, and otherwise resolves to the whole model: as
\* many tracks as the file has, each with all its notes; it never yields a
\* part of a model.
BlobFails(blob) == blob.isNull \/ ~blob.readable \/ ~blob.decodable

Rejected(r) ==
  r.throws /\ r.message = "Failed to parse MIDI file" /\ r.value = <<>>

WholeModel(r, midi) ==
  /\ ~r.throws
  /\ Len(r.value) = 1
  /\ ~r.value[1].isNull
  /\ r.value[1].hasTracks
  /\ Len(r.value[1].tracks) = Len(midi.tracks)
  /\ \A i \in 1..Len(midi.tracks) :
       /\ r.value[1].tracks[i].hasNotes
       /\ r.value[1].tracks[i].notes = midi.tracks[i].notes
       /\ r.value[1].tracks[i].instrument = midi.tracks[i].instrument
  /\ r.value[1].name = midi.name
  /\ r.value[1].duration = midi.duration

ParseFailsClosed ==
  Answered("parseMidiBlob") =>
    LET r == response[1]
        blob == request.midiBlob
    IN /\ BlobFails(blob) => Rejected(r)
       /\ Rejected(r) \/ WholeModel(r, blob.midi)
       /\ (~BlobFails(blob) /\ ~SummaryFault(blob.midi))
            => WholeModel(r, blob.midi)

\* a blob that is read but is not a MIDI file
ParseFailsClosedWitness ==
  /\ Answered("parseMidiBlob")
  /\ ~request.midiBlob.isNull
  /\ request.midiBlob.readable
  /\ ~request.midiBlob.decodable
  /\ Rejected(response[1])

\* C15 (as stated): transcribeAudio resolves with success:true exactly when
\* the HTTP response is OK; otherwise success:false with the service's error
\* string or 'Transcription failed', or for a network failure the thrown
\* message or 'Network error occurred'.
FailureText(net) ==
  IF net.resolves
  THEN IF net.errorData.hasError /\ net.errorData.error # ""
       THEN net.errorData.error ELSE "Transcription failed"
  ELSE IF net.message # "" THEN net.message ELSE "Network error occurred"

SuccessWhenResponseOk ==
  Answered("transcribeAudio") =>
    LET r == response[1]
        net == request.net
    IN /\ r.success <=> (net.resolves /\ net.ok)
       /\ ~r.success => r.error = FailureText(net)

\* C15 (amended): success:true exactly when the response is OK, its body is
\* read and the file is not null; a failure of fetch or of reading the body
\* of either kind of response gives the thrown message or 'Network error
\* occurred'; a non-OK response whose body is read and is not null gives
\* the service's error string or 'Transcription failed'; a null body and a
\* null file give the message of the TypeError their reading throws.
TranscriptionOutcome ==
  Answered("transcribeAudio") =>
    LET r == response[1]
        net == request.net
        file == request.audioFile
        thrown == IF net.message # "" THEN net.message
                  ELSE "Network error occurred"
        answered == net.resolves /\ net.bodyRead
    IN /\ r.success <=> (answered /\ net.ok /\ ~file.isNull)
       /\ r.success => r.midiFile = <<net.blob>> /\ r.error = ""
       /\ ~answered => r.error = thrown
       /\ (answered /\ ~net.ok /\ ~net.errorData.isNull)
            => r.error = FailureText(net)
       /\ (answered /\ ~net.ok /\ net.errorData.isNull)
            => r.error = "Cannot read properties of null (reading 'error')"
       /\ (answered /\ net.ok /\ file.isNull)
            => r.error = "Cannot read properties of null (reading 'name')"

\* an OK response whose body cannot be read is reported as a failure
TranscriptionOutcomeWitness ==
  /\ Answered("transcribeAudio")
  /\ request.net.resolves /\ request.net.ok /\ ~request.net.bodyRead
  /\ request.net.message = "Failed to fetch"
  /\ ~response[1].success
  /\ response[1].error = "Failed to fetch"

\* C16: getErrorMessage is total: each of the five known error strings is
\* mapped to its message, and every other input to 'An unexpected error
\* occurred. Please try again.'
ExpectedMessage(key) ==
  CASE key = "File too large" ->
         "Please select a smaller audio file (max 50MB)"
    [] key = "File type not supported" ->
         "Please use WAV, MP3, FLAC, or M4A files"
    [] key = "Internal server error" ->
         "Transcription service unavailable. Please try again."
    [] key = "No audio file provided" ->
         "Please select an audio file first"
    [] key = "Network error occurred" ->
         "Unable to connect to the transcription service"
    [] OTHER -> "An unexpected error occurred. Please try again."

ErrorMessageTotal ==
  Answered("getErrorMessage") =>
    /\ response[1].kind = "string"
    /\ response[1].text = ExpectedMessage(request.error)

\* C17: isValidAudioFile is true exactly when the file is non-null, the
\* lower-cased text after the last '.' of its name is in supportedFormats,
\* and its size is at most maxSizeMB MiB (a file of exactly the limit is
\* accepted).
HasListedExtension(name, formats) ==
  \E i \in 1..Len(name) :
    /\ name[i] = "."
    /\ \A j \in (i + 1)..Len(name) : name[j] # "."
    /\ \E k \in 1..Len(formats) :
         formats[k] = toLowerCase(SubSeq(name, i + 1, Len(name)))

ValidExactly ==
  Answered("isValidAudioFile") =>
    (response[1] = TRUE <=>
       /\ ~request.file.isNull
       /\ HasListedExtension(request.file.name, request.supportedFormats)
       /\ request.file.size <= request.maxSizeMB * 1048576)

\* C18: checkBackendHealth never rejects; it resolves to true when /health
\* answers OK with status 'healthy' and to false in every other case: another
\* status, a non-OK response, a network failure, a failure of the diagnostic
\* request.
HealthOutcome ==
  Answered("checkBackendHealth") =>
    LET net == request.health
    IN /\ ~response[1].throws
       /\ response[1].value <=>
            /\ net.resolves /\ net.ok /\ net.bodyRead
            /\ ~net.data.isNull /\ net.data.hasStatus
            /\ net.data.status = "healthy"

\* the network is down: the request and the diagnostic request both fail
HealthOutcomeWitness ==
  /\ Answered("checkBackendHealth")
  /\ ~request.health.resolves
  /\ ~request.health.simpleResolves
  /\ ~response[1].throws
  /\ response[1].value = FALSE

(***************************************************************************)
(* Properties of the application.                                          *)
(***************************************************************************)

\* C13: once parsing has succeeded, the ABC encoding, the VexFlow encoding
\* and the summary are each produced, populated or as the stage's own
\* fallback, whatever happens in the other two: after the viewer has
\* processed the model, the summary is the populated one, and each encoding
\* is the populated one unless the first track itself makes the encoders
\* fault, in which case each is its own fallback.
StageIsolation ==
  (~midiData.isNull /\ processed) =>
    /\ Len(midiSummary) = 1
    /\ midiSummary[1].name = ExpectedTitle(midiData)
    /\ midiSummary[1].tracks = Len(midiData.tracks)
    /\ midiSummary[1].totalNotes
         = TotalNotes(midiData.tracks, Len(midiData.tracks))
    /\ viewerError = ""
    /\ IF FirstTrackFault(midiData)
       THEN /\ abcNotation = HeaderLines(ErrorTitle) \o <<"z", "4">>
            /\ vexFlowData = <<>>
       ELSE /\ StartsWith(abcNotation, HeaderLines(ExpectedTitle(midiData)))
            /\ HasFirstTrack(midiData)
                 => Len(vexFlowData) = Len(midiData.tracks[1].notes)

\* both encoders fell back on a nameless note while the summary counts the
\* three notes of the two tracks
StageIsolationWitness ==
  /\ ~midiData.isNull /\ processed
  /\ FirstTrackFault(midiData)
  /\ abcNotation = HeaderLines(ErrorTitle) \o <<"z", "4">>
  /\ vexFlowData = <<>>
  /\ midiSummary[1].tracks = 2
  /\ midiSummary[1].totalNotes = 3
  /\ "Error converting MIDI to ABC:" \in consoleErrors
  /\ "Error getting MIDI summary:" \notin consoleErrors

\* C14: every handleFileUpload call whose request completes ends with
\* isTranscribing = false, and either in success (midiData and midiSummary
\* set, error empty) or in failure (midiData and midiSummary null, error a
\* non-empty message).
UploadOutcome ==
  /\ settled # "none" => ~isTranscribing
  /\ settled = "succeeded" =>
       /\ ~midiData.isNull
       /\ midiSummary # <<>>
       /\ error = [kind |-> "string", text |-> ""]
  /\ settled = "failed" =>
       /\ midiData.isNull
       /\ midiSummary = <<>>
       /\ error.kind = "string"
       /\ error.text # ""

\* C19: getSupportedFormats never rejects and resolves to an object with a
\* supported_formats list and a max_file_size_mb number (the backend's data
\* when the request succeeds, the defaults when it fails), and the
\* supportedFormats state of FileUploader is a list in every state.
FormatsContract ==
  /\ Answered("getSupportedFormats") =>
       LET r == response[1]
           net == request.formats
       IN /\ ~r.throws
          /\ ~r.value.isNull
          /\ r.value.hasFormats
          /\ r.value.hasMaxSize
          /\ (~net.resolves \/ ~net.bodyRead) =>
               /\ r.value.supported_formats
                    = << <<"w", "a", "v">>, <<"m", "p", "3">>,
                         <<"f", "l", "a", "c">>, <<"m", "4", "a">> >>
               /\ r.value.max_file_size_mb = 50
  /\ supportedFormats # <<>>

(***************************************************************************)
(* Properties relating the encoders to each other and to the model.        *)
(***************************************************************************)

\* C21: for every note duration, boundary values 0.25, 0.5, 1 and 2
\* included, the ABC suffix and the VexFlow code name the same one of the
\* five buckets: '/4'~'16', '/2'~'8', ''~'q', '2'~'h', '4'~'w'.
SuffixBucket(suffix) ==
  CASE suffix = <<"/", "4">> -> 1
    [] suffix = <<"/", "2">> -> 2
    [] suffix = <<>> -> 3
    [] suffix = <<"2">> -> 4
    [] suffix = <<"4">> -> 5
    [] OTHER -> 0

CodeBucket(code) ==
  CASE code = <<"1", "6">> -> 1
    [] code = <<"8">> -> 2
    [] code = <<"q">> -> 3
    [] code = <<"h">> -> 4
    [] code = <<"w">> -> 5
    [] OTHER -> 6

EncodersAgree ==
  (AbcCalled /\ VexCalled /\ Encodable(midiData)) =>
    /\ Len(AbcTokens) = Len(vexFlowData)
    /\ \A i \in 1..Len(vexFlowData) :
         SuffixBucket(SelectSeq(AbcTokens[i], IsDurationChar))
           = CodeBucket(vexFlowData[i].duration)

\* a note of exactly 2 seconds, encoded by both as a whole note
EncodersAgreeWitness ==
  /\ AbcCalled /\ VexCalled
  /\ Encodable(midiData)
  /\ Len(midiData.tracks[1].notes) = 1
  /\ midiData.tracks[1].notes[1].duration = 2000
  /\ SelectSeq(AbcTokens[1], IsDurationChar) = <<"4">>
  /\ vexFlowData[1].duration = <<"w">>

\* C22: convertMidiToABC, convertMidiToVexFlow and getMidiSummary leave the
\* model as it was: no call changes the order or the contents of any
\* track's notes, also when the notes are not in time order and when the
\* call ends in the fallback.
ModelUnchanged == [][midiData' = midiData]_vars

\* all three were applied to a first track whose notes are out of time
\* order and whose last note has no name, so that both encoders fell back
ModelUnchangedWitness ==
  /\ AbcCalled /\ VexCalled /\ SummaryCalled
  /\ HasFirstTrack(midiData)
  /\ midiData.tracks[1].hasNotes
  /\ Len(midiData.tracks[1].notes) >= 2
  /\ midiData.tracks[1].notes[1].time > midiData.tracks[1].notes[2].time
  /\ abcNotation = HeaderLines(ErrorTitle) \o <<"z", "4">>
  /\ "Error converting MIDI to VexFlow:" \in consoleErrors

\* C30: on a model without fault, convertMidiToABC emits one note token and
\* convertMidiToVexFlow one descriptor per note of tracks[0], the i-th of
\* each coming from the same note; the other tracks do not influence either
\* output (a model with the same name and first track gives the same
\* outputs), though their notes are counted in the summary's totalNotes.
SameFirstTrack(m) ==
  {other \in ShapeModels \cup SummaryModels :
     /\ HasFirstTrack(other)
     /\ other.tracks[1] = m.tracks[1]
     /\ other.hasName = m.hasName
     /\ other.name = m.name}

FirstTrackOnly ==
  Encodable(midiData) =>
    LET notes == FirstTrackInOrder
    IN /\ AbcCalled =>
            /\ Len(AbcTokens) = Len(notes)
            /\ \A i \in 1..Len(notes) :
                 /\ SelectSeq(AbcTokens[i], IsDurationChar)
                      = BucketSuffix(notes[i].duration)
                 /\ toLowerCase(<<SelectSeq(AbcTokens[i], IsNotSharp)[1]>>)
                      = toLowerCase(<<notes[i].name[1]>>)
            /\ \A other \in SameFirstTrack(midiData) :
                 convertMidiToABC(other).value = abcNotation
       /\ VexCalled =>
            /\ Len(vexFlowData) = Len(notes)
            /\ \A i \in 1..Len(notes) :
                 /\ vexFlowData[i].midi = notes[i].midi
                 /\ vexFlowData[i].time = notes[i].time
                 /\ vexFlowData[i].duration = BucketCode(notes[i].duration)
            /\ \A other \in SameFirstTrack(midiData) :
                 convertMidiToVexFlow(other).value = vexFlowData
       /\ (SummaryCalled /\ ~SummaryFault(midiData)) =>
            midiSummary[1].totalNotes
              = TotalNotes(midiData.tracks, Len(midiData.tracks))

\* two tracks of 2 and 1 notes: two tokens, two descriptors, three notes
\* counted, and models with other second tracks to compare with
FirstTrackOnlyWitness ==
  /\ AbcCalled /\ VexCalled /\ SummaryCalled
  /\ Encodable(midiData)
  /\ Len(midiData.tracks) = 2
  /\ Len(midiData.tracks[1].notes) = 2
  /\ Len(midiData.tracks[2].notes) = 1
  /\ Len(AbcTokens) = 2
  /\ Len(vexFlowData) = 2
  /\ midiSummary[1].totalNotes = 3
  /\ Cardinality(SameFirstTrack(midiData)) >= 3

(***************************************************************************)
(* Properties of the uploader and of the App's state                       *)
(***************************************************************************)

\* C24: onFileUpload is invoked only from a drop without rejected files whose
\* first accepted file passes isValidAudioFile against the current
\* supportedFormats and maxFileSize, and then once, with that file; a drop
\* with a rejected file or with a first file failing the validation raises
\* an alert and invokes nothing.
UploadGating ==
  lastDrop # <<>> =>
    LET d == lastDrop[1]
        passes == /\ d.rejected = <<>>
                  /\ d.accepted # <<>>
                  /\ isValidAudioFile(d.accepted[1], supportedFormats[1],
                                      IF maxFileSize = <<>> THEN 50
                                      ELSE maxFileSize[1])
        refused == \/ d.rejected # <<>>
                   \/ /\ d.accepted # <<>>
                      /\ ~isValidAudioFile(d.accepted[1], supportedFormats[1],
                                           IF maxFileSize = <<>> THEN 50
                                           ELSE maxFileSize[1])
    IN /\ d.handed # <<>> => passes
       /\ passes =>
            /\ d.handed = <<d.accepted[1]>>
            /\ d.alert = ""
            /\ uploads = <<[stage |-> "transcribing", file |-> d.accepted[1]]>>
            /\ currentFile = <<d.accepted[1]>>
       /\ refused =>
            /\ d.alert # ""
            /\ d.handed = <<>>
            /\ uploads = <<>>

\* a drop of a valid file started an upload of it
UploadGatingWitness ==
  /\ lastDrop # <<>>
  /\ lastDrop[1].handed # <<>>
  /\ Len(uploads) = 1
  /\ isTranscribing

ResetEvents == {"resetFromError", "resetFromSuccess"}

\* C25: handleReset, from the error state as from the success state, leaves
\* midiData, midiSummary, midiBlob and currentFile null and midiFilename and
\* error empty, does not change isTranscribing, and the placeholder of the
\* viewer is then shown without the success and the error banner.
ResetClears ==
  [][lastEvent' \in ResetEvents =>
       /\ ErrorBanner \/ SuccessBanner
       /\ (lastEvent' = "resetFromError") = ErrorBanner
       /\ midiData'.isNull
       /\ midiSummary' = <<>>
       /\ midiBlob' = <<>>
       /\ currentFile' = <<>>
       /\ midiFilename' = <<>>
       /\ error' = String("")
       /\ isTranscribing' = isTranscribing
       /\ Placeholder'
       /\ ~SuccessBanner'
       /\ ~ErrorBanner']_vars

\* a reset after a successful upload, whose blob and file name are gone
ResetClearsWitness ==
  /\ lastEvent = "resetFromSuccess"
  /\ called # {}
  /\ midiBlob = <<>>
  /\ midiFilename = <<>>
  /\ Placeholder

\* C27: in every reachable state of App, midiData is null or error is empty:
\* the sheet music and the error banner are never both backed by state,
\* whatever uploads, successful or failed, and resets came before.
SuccessXorError == ~(~midiData.isNull /\ Truthy(error))

\* a second successful upload is displayed, without an error
SuccessXorErrorWitness ==
  /\ settled = "succeeded"
  /\ "getMidiSummary" \in repeated
  /\ ~midiData.isNull
  /\ error = String("")

\* C28: at most one handleFileUpload call is in flight; while it is,
\* isTranscribing is true and the dropzone disabled, midiData is null and
\* error empty so that no reset or download button is rendered, and no drop,
\* reset or download is handled before the call has completed.
OneUploadInFlight ==
  /\ [](/\ Len(uploads) <= 1
        /\ isTranscribing = (uploads # <<>>)
        /\ uploads # <<>> =>
             /\ DropzoneDisabled
             /\ midiData.isNull
             /\ ~Truthy(error)
             /\ ~ErrorBanner
             /\ ~SuccessBanner)
  /\ [][uploads # <<>> =>
          lastEvent' \notin {"drop", "download"} \cup ResetEvents]_vars

\* an upload following a displayed one awaits its parse, alone
OneUploadInFlightWitness ==
  /\ Len(uploads) = 1
  /\ uploads[1].stage = "parsing"
  /\ "getMidiSummary" \in called
  /\ isTranscribing
  /\ midiData.isNull

\* C29: whenever midiData is non-null, midiSummary and midiBlob are non-null
\* and midiFilename is non-empty, and all four come from the upload of
\* currentFile: midiData is the parse of midiBlob, midiSummary its summary
\* and midiFilename the name derived from currentFile; a download then
\* hands exactly this blob under this name to the browser.
DownloadConsistency ==
  /\ ~midiData.isNull =>
       /\ midiSummary # <<>>
       /\ midiBlob # <<>>
       /\ midiFilename # <<>>
       /\ currentFile # <<>>
       /\ ~parseMidiBlob(midiBlob[1]).throws
       /\ parseMidiBlob(midiBlob[1]).value = <<midiData>>
       /\ midiSummary = getMidiSummary(midiData).value
       /\ midiFilename = MidiFilename(currentFile[1].name)
  /\ lastEvent = "download" =>
       /\ ~midiData.isNull
       /\ downloaded = <<[blob |-> midiBlob[1], filename |-> midiFilename]>>

\* the second displayed transcription, of a.wav, was downloaded as a.mid
DownloadConsistencyWitness ==
  /\ lastEvent = "download"
  /\ "getMidiSummary" \in repeated
  /\ downloaded # <<>>
  /\ downloaded[1].filename = <<"a", ".", "m", "i", "d">>
  /\ downloaded[1].blob.midi = midiData

(***************************************************************************)
(* Properties of BackendStatus                                             *)
(***************************************************************************)

\* C26: status is 'checking' from the mount until a check has completed;
\* a check that completes while the component is mounted sets status to
\* 'online' when checkBackendHealth gave true and to 'offline' when it gave
\* false or threw; status never becomes 'checking' again; one check is
\* started at the mount and one by every tick of the interval, and none
\* after the unmount.
StatusLifecycle ==
  /\ [](/\ checksCompleted = 0 => status = "checking"
        /\ checksStarted = 1 + ticks
        /\ mounted /\ lastCheck # <<>> =>
             status = (IF ~lastCheck[1].throws /\ lastCheck[1].value
                       THEN "online" ELSE "offline"))
  /\ [][/\ status # "checking" => status' # "checking"
        /\ checksCompleted' # checksCompleted /\ mounted =>
             status' = (IF ~lastCheck'[1].throws /\ lastCheck'[1].value
                        THEN "online" ELSE "offline")
        /\ ~mounted => checksStarted' = checksStarted]_vars

\* after an online answer, a later check found the backend offline, and
\* the component was then unmounted with a check still pending
StatusLifecycleWitness ==
  /\ ~mounted
  /\ status = "offline"
  /\ checksCompleted >= 2
  /\ checksCompleted < checksStarted
  /\ ticks >= 2

====
